---- MODULE Spec2Model ----
(***************************************************************************)
(* A model of the HotShot consensus task graph: the DA task, the quorum    *)
(* proposal task with its per-view dependency tasks, the quorum proposal   *)
(* receive handler, the shared Consensus object and the Storage contract.  *)
(***************************************************************************)
EXTENDS Integers, Sequences, FiniteSets, TLC

\* ------------------------------------------------------------------ bounds
\* Highest view number any event, proposal or certificate carries.
MaxView == 2
\* Number of events the environment (network, builder) puts on the DA task's stream.
MaxDaInputs == 3
\* Events the quorum proposal task may have left unhandled when another one arrives.
MaxQpQueue == 2
\* Views the committee proposes for.
MaxAgreeView == 3
\* Largest total stake a threshold is computed for.
MaxStake == 6
\* The capacity of the external event channel (EXTERNAL_EVENT_CHANNEL_SIZE, scaled down).
MaxExternal == 2
\* The DA committee has the keys 1..DaCommitteeSize.
DaCommitteeSize == 3
\* Requests one VID requester is followed through.
MaxVidRequests == 4
\* Runs of its handler each task is followed through in the lock model.
MaxLockRuns == 2
\* Leaf hashes of the PhaseLock storage, 0 being the all-zero hash.
MaxLeafHash == 3
\* Longest round timeout the driver loop is followed to, in milliseconds.
MaxDuration == 20

Views == 0..MaxView
\* TYPES::Time::genesis()
GenesisView == 0
\* Distinct encoded_transactions byte strings.
Txns == {"a", "b"}
\* Quorum committee sizes the node is started with.
CommitteeSizes == {1, 2}
\* Views a proposal dependency task can be created for.
DepViews == 1..MaxView
\* Views of the certificates and proposals that a proposal for a view of DepViews
\* can build on.
CertViews == 0..(MaxView - 1)
\* ProposalDependency
SlotKinds == {"PayloadAndMetadata", "Qc", "ViewSyncCert", "TimeoutCert", "Proposal", "VidShare"}

\* An event of the internal stream, by what the quorum proposal task reads of it:
\* its variant, the view number of the certificate, proposal or payload it carries,
\* and whether the certificate it carries is valid.
QpEvent(type, view, valid) == [type |-> type, view |-> view, valid |-> valid]
NoEvent == QpEvent("none", 0, TRUE)

\* A quorum proposal as the receive task reads it: its view, the view of its
\* justify_qc, whether its sender, signature and attached certificates pass
\* validate_proposal_view_and_certs, whether justify_qc.is_valid_cert holds, and
\* the block that tells its leaf from another leaf of the same view.
RecvProposals == [view : DepViews, jqc : CertViews, certs_ok : BOOLEAN, qc_valid : BOOLEAN,
                  block : Txns]
NoRecvProposal == [view |-> 1, jqc |-> 0, certs_ok |-> TRUE, qc_valid |-> TRUE, block |-> "a"]

\* A DA vote by the committee member that signed it; members are 1..num_nodes.
\* Votes reach one view further than proposals, so that a committee of two has
\* two views led by this node.
DaVotes == [view : 0..(MaxView + 1), signer : 1..2]
\* vote_collector is None.
NoCollector == [view |-> 0, signers |-> {}, live |-> FALSE]

NoSlots == [k \in SlotKinds |-> NoEvent]
\* A dependency task: where it stands, the event that completed each of its event
\* dependencies, the view number it read last (high_qc or parent), and the view
\* change evidence of the proposal it builds.
NoTask == [st |-> "none", slots |-> NoSlots, aux |-> 0, cert |-> NoEvent]

VARIABLES
    \* ---- shared Consensus object
    cur_view,              \* Consensus.cur_view
    saved_payloads,        \* Consensus.saved_payloads: view -> txns or "none"
    validated_state_map,   \* Consensus.validated_state_map: view -> "none"|"Da"|"Leaf"|"Failed"
    \* ---- Storage
    storage_da,            \* DA proposals appended with append_da
    \* ---- DA task (DaTaskState)
    da_has_stake,          \* da_membership.has_stake(public_key)
    da_cur_view,           \* DaTaskState.cur_view
    da_events,             \* the DA task's receiver: events broadcast and not yet handled
    da_alive,              \* FALSE once handle returned Some(HotShotTaskCompleted)
    da_effects,            \* what the last run of handle did, in order
    da_vote_count,         \* view -> number of DaVoteSend events emitted
    da_append_failures,    \* number of storage.append_da calls that returned Err
    da_inputs,             \* number of events the environment has broadcast
    vote_collector,        \* DaTaskState.vote_collector: the accumulator, or NoCollector
    da_cert_count,         \* view -> number of DA certificates this node's accumulators formed
    da_quorum_observed,    \* views for which this node formed or received a DA certificate
    \* ---- membership
    num_nodes,             \* size of the quorum committee; this node is its last member
    \* ---- shared Consensus object, continued
    high_qc,               \* Consensus.high_qc, by its view number
    locked_view,           \* Consensus.locked_view
    last_decided_view,     \* Consensus.last_decided_view
    saved_leaves,          \* Consensus.saved_leaves, each leaf by its view number
    last_proposals,        \* Consensus.last_proposals: the views with a signed proposal
    \* ---- Storage, continued
    storage_high_qc,       \* the high QC last persisted with update_high_qc
    \* ---- quorum proposal task (QuorumProposalTaskState) and its dependency tasks
    latest_proposed_view,  \* QuorumProposalTaskState.latest_proposed_view
    proposal_dependencies, \* keys of QuorumProposalTaskState.proposal_dependencies
    dep,                   \* view -> the dependency task spawned for it
    qp_events,             \* events broadcast by the tasks and not yet handled
    qp_storage_failed,     \* the last run of handle had storage.update_high_qc return Err
    accepted,              \* view -> proposals accepted by update_last_proposed_view
    sent,                  \* view -> QuorumProposalSend events broadcast
    \* ---- quorum proposal receive task (QuorumProposalRecvTaskState)
    recv_cur_view,         \* QuorumProposalRecvTaskState.cur_view
    recv_pc,               \* where handle_quorum_proposal_recv stands
    recv_p,                \* the proposal it is handling
    recv_parent,           \* whether it found the parent leaf
    recv_storage_failed,   \* its last run had storage.update_high_qc return Err
    recv_out,              \* what its last run broadcast and stored, in order
    recv_grade,            \* what its last run returned: "Fully", "Liveness", "Err"; "none": running
    recv_lock_log,         \* its last run's lock, Consensus and storage operations, in order
    leaf_store,            \* Consensus.saved_leaves by commitment: the <<view, block>> saved
    leaf_of_view,          \* the block of the leaf that validated_state_map[v] names, or "none"
    \* ---- the committee: every honest member's Consensus, and the proposals sent
    leaf_parent,           \* leaf -> the leaf its justify_qc certifies; NoLeaf: not proposed
    quorum_votes,          \* honest member -> view -> block of the leaf it voted for
    nodes_cur_view,        \* honest member -> Consensus.cur_view
    nodes_locked,          \* honest member -> the leaf at its Consensus.locked_view
    nodes_decided,         \* honest member -> the leaves it has decided
    \* ---- versioned messages between two nodes
    wire,                  \* the bytes on the network, <<>> when there are none
    wire_sent,             \* what produced them: the message, the sender's certificate
    wire_result,           \* what the last deserialize returned, and under which certificate
    \* ---- the network response task
    vid_shares,            \* Consensus.vid_shares: view -> the keys a share is stored for
    requests,              \* RequestReceiver: the requests received and not yet handled
    response,              \* what was sent on the channel of the last request handled
    \* ---- the external (application-facing) event channel
    external_stream,       \* the events queued in the channel, oldest first
    external_active,       \* the number of active receivers the application holds
    external_waiting,      \* a task's broadcast on the channel has not completed
    \* ---- the PhaseLock engine (src/lib.rs)
    storage_leaves,        \* storage: leaf hash -> the parent hash of the leaf stored, -1: none
    locked_qc,             \* PhaseLockInner.locked_qc
    safety_call,           \* the last call of extends_from or safe_node, with its answer
    timeout_config,        \* config.next_view_timeout and config.timeout_ratio of the driver
    int_duration,          \* the driver loop's int_duration
    pause,                 \* the pause flag of the handle
    round_res,             \* how the driver loop's last iteration went
    \* ---- the network request task (NetworkRequestState and its requesters)
    request_view,          \* NetworkRequestState.view
    shutdown_flag,         \* NetworkRequestState.shutdown_flag, shared with the requesters
    vid_requester,         \* the DelayedRequester spawned for a VID share
    vid_sent,              \* the recipients of its request_data calls, in order
    proposal_requester,    \* the ProposalRequester spawned for a QuorumProposalRequest
    proposal_sent,         \* the recipients of its request_data calls, in order
    response_chan,         \* the values broadcast on ProposalMissing.response_chan, in order
    \* ---- the Consensus lock and the Storage lock, as the tasks take them
    consensus_lock,        \* Arc<RwLock<Consensus>>: the writer and the readers holding it
    storage_lock,          \* Arc<RwLock<Storage>>: the task holding its write guard
    lock_pc,               \* task -> the source line of the lock request it stands at
    lock_runs              \* task -> the runs of its handler started

\* The DA leader's vote collection and the DA certificates seen.
da_collector_vars == <<vote_collector, da_cert_count, da_quorum_observed>>

da_vars == <<cur_view, saved_payloads, validated_state_map, storage_da, da_has_stake,
             da_cur_view, da_events, da_alive, da_effects, da_vote_count,
             da_append_failures, da_inputs, da_collector_vars>>

\* The DA task's own fields and history.
da_task_vars == <<da_has_stake, da_cur_view, da_events, da_alive, da_effects,
                  da_vote_count, da_append_failures, da_inputs, da_collector_vars>>

\* The quorum proposal task's own fields and history.
qp_task_vars == <<num_nodes, latest_proposed_view, proposal_dependencies, dep,
                  qp_events, qp_storage_failed, accepted, sent>>

\* The quorum proposal receive task's own fields and history.
recv_task_vars == <<recv_cur_view, recv_pc, recv_p, recv_parent, recv_storage_failed,
                    recv_out, recv_grade, recv_lock_log, leaf_store, leaf_of_view>>

\* The state of the committee as a whole.
committee_vars == <<leaf_parent, quorum_votes, nodes_cur_view, nodes_locked, nodes_decided>>

\* The parts of the program modelled on their own: versioned messages on the
\* network, and the network response task.
\* The PhaseLock engine.
phaselock_vars == <<storage_leaves, locked_qc, safety_call, timeout_config, int_duration,
                    pause, round_res>>

\* The parts of the program modelled after the ones above.
\* The network request task.
request_vars == <<request_view, shutdown_flag, vid_requester, vid_sent, proposal_requester,
                  proposal_sent, response_chan>>

\* The two locks and the tasks' positions between them.
lock_vars == <<consensus_lock, storage_lock, lock_pc, lock_runs>>

later_vars == <<phaselock_vars, request_vars, lock_vars>>

aside_vars == <<wire, wire_sent, wire_result, vid_shares, requests, response,
                external_stream, external_active, external_waiting, later_vars>>

\* What the DA task never touches.
da_rest == <<high_qc, locked_view, last_decided_view, saved_leaves, last_proposals,
             storage_high_qc, qp_task_vars, recv_task_vars, committee_vars, aside_vars>>

vars == <<da_vars, da_rest>>

\* ------------------------------------------------------------ the committee

\* A committee of four with one Byzantine member (3f+1 with f = 1).
Nodes == 1..4
Byzantine_Two == {3, 4}
Byzantine == {4}
Honest == Nodes \ Byzantine

AgreeViews == 1..MaxAgreeView

\* A leaf, by the two things that make its commitment in the model: its view and
\* its block. A leader that equivocates sends two leaves with different blocks.
Leaves == [view : AgreeViews, block : Txns]
GenesisLeaf == [view |-> GenesisView, block |-> "genesis"]
NoLeaf == [view |-> GenesisView, block |-> "none"]

\* Every member starts from the genesis leaf: nothing proposed, no vote cast.
CommitteeInit ==
    /\ leaf_parent = [l \in Leaves |-> NoLeaf]
    /\ quorum_votes = [n \in Honest |-> [v \in AgreeViews |-> "none"]]
    /\ nodes_cur_view = [n \in Honest |-> GenesisView]
    /\ nodes_locked = [n \in Honest |-> GenesisLeaf]
    /\ nodes_decided = [n \in Honest |-> {}]

\* ------------------------------------------------------------ versioned messages

\* Protocol versions as (major, minor): Base is 0.1, Upgrade is 0.2; 0.3 stands
\* for a version this build does not know.
Base == <<0, 1>>
Upgrade == <<0, 2>>
Versions == {Base, Upgrade, <<0, 3>>}

\* A message, by its view and its content.
Messages == [view : Views, body : Txns]
NoMessage == [view |-> 0, body |-> "a"]

\* Option<UpgradeCertificate>: None, or a decided certificate with its data.
NoUpgradeCert == [some |-> FALSE, new_version |-> Base, new_version_first_view |-> 0]
UpgradeCerts ==
    {NoUpgradeCert} \cup [some : {TRUE}, new_version : Versions, new_version_first_view : Views]

\* No bytes on the network, nothing serialized or deserialized yet.
\* A quorum certificate of the PhaseLock engine, by what safe_node reads of it.
PlQc(leaf_hash, view_number, genesis) ==
    [leaf_hash |-> leaf_hash, view_number |-> view_number, genesis |-> genesis]

NoSafetyCall == [fn |-> "none", parent |-> 0, node |-> 0, qc |-> PlQc(0, 0, FALSE),
                 result |-> FALSE]
NoTimeoutConfig == [next_view_timeout |-> 0, mul |-> 0, div |-> 1]

\* PhaseLock::new: the genesis leaf, whose parent is the zero hash, is stored and
\* locked_qc is the genesis certificate for it; the driver is not started.
PhaseLock_new ==
    /\ storage_leaves = [h \in 1..MaxLeafHash |-> IF h = 1 THEN 0 ELSE -1]
    /\ locked_qc = PlQc(1, 0, TRUE)
    /\ safety_call = NoSafetyCall
    /\ timeout_config = NoTimeoutConfig
    /\ int_duration = 0
    /\ pause = TRUE
    /\ round_res = "none"

NoVidRequester == [pc |-> "none", view |-> 0, recipients |-> <<>>, next |-> 1,
                   recv |-> FALSE]
NoProposalRequester == [pc |-> "none", view |-> 0, leader |-> 0, outcome |-> "none"]

\* The request task as it is created: no requester is spawned and the shutdown
\* flag is down.
NetworkRequestState_new ==
    /\ request_view = GenesisView
    /\ shutdown_flag = FALSE
    /\ vid_requester = NoVidRequester
    /\ vid_sent = <<>>
    /\ proposal_requester = NoProposalRequester
    /\ proposal_sent = <<>>
    /\ response_chan = <<>>

\* The tasks that share the Consensus lock and the Storage lock.
LockTasks == {"da", "qp", "recv", "resp"}

\* Both locks are free and every task waits for an event.
Locks_new ==
    /\ consensus_lock = [writer |-> "none", readers |-> {}]
    /\ storage_lock = "none"
    /\ lock_pc = [t \in LockTasks |-> "idle"]
    /\ lock_runs = [t \in LockTasks |-> 0]

MessageInit ==
    /\ wire = <<>>
    /\ wire_sent = [m |-> NoMessage, cert |-> NoUpgradeCert, ok |-> FALSE, honest |-> FALSE]
    /\ wire_result = [done |-> FALSE, ok |-> FALSE, msg |-> NoMessage, err |-> "",
                       cert |-> NoUpgradeCert]
    /\ vid_shares = [v \in Views |-> {}]
    /\ requests = <<>>
    /\ response = <<>>
    /\ external_stream = <<>>
    /\ external_active = 0
    /\ external_waiting = FALSE
    /\ PhaseLock_new
    /\ NetworkRequestState_new
    /\ Locks_new

\* ------------------------------------------------------------ Consensus (shared)

\* Consensus::update_validated_state_map: a Leaf entry is never replaced by a
\* non-Leaf entry; otherwise the new entry is written.
update_validated_state_map(map, v, entry) ==
    IF map[v] = "Leaf" /\ entry # "Leaf" THEN map ELSE [map EXCEPT ![v] = entry]

\* Consensus::update_saved_payloads: inserts when the view has no payload yet;
\* a payload already saved for the view is kept.
update_saved_payloads(map, v, txns) ==
    IF map[v] # "none" THEN map ELSE [map EXCEPT ![v] = txns]

\* ------------------------------------------------------------------ membership

\* quorum_membership.leader(v) == public_key: the committee's keys take turns in
\* key order and this node's key is the last.
Leader(v) == v % num_nodes = num_nodes - 1

\* ------------------------------------------------------------------ DA task

\* A DA proposal with the key that sent it and whether its signature validates
\* under the DA leader's key over SHA256(encoded_transactions). A proposal from
\* another key is dropped before its signature is looked at, so one is enough.
DaProposals ==
    {p \in [view : Views, txns : Txns, sender : {"leader", "other"}, sig : BOOLEAN] :
        p.sender = "leader" \/ p.sig}

DaEvent(type, view, p) == [type |-> type, view |-> view, p |-> p]
NoProposal == [view |-> 0, txns |-> "a", sender |-> "leader", sig |-> TRUE]

\* One step of a handler run: an event broadcast, a storage call or a Consensus update.
Effect(op, p) == [op |-> op, p |-> p]

\* Consensus::new as SystemContext::new calls it: cur_view, locked_view and
\* last_decided_view all start at the anchored leaf's view, high_qc is the
\* initializer's, and the anchored leaf is the only entry of the maps.
\* payload: the anchored leaf's block payload, "none" when it carries none.
ConsensusNew(anchor, h, payload) ==
    /\ cur_view = anchor
    /\ locked_view = anchor
    /\ last_decided_view = anchor
    /\ high_qc = h
    /\ validated_state_map = [v \in Views |-> IF v = anchor THEN "Leaf" ELSE "none"]
    /\ saved_leaves = {anchor}
    /\ saved_payloads = [v \in Views |-> IF v = anchor THEN payload ELSE "none"]
    /\ last_proposals = {}

\* The storage the node starts with: no DA proposal, and the high QC it was loaded from.
StorageInit(h) ==
    /\ storage_da = {}
    /\ storage_high_qc = h

\* DaTaskState as the node creates it. stake: da_membership.has_stake(public_key).
DaTaskInit(stake) ==
    /\ da_has_stake = stake
    /\ da_cur_view = GenesisView
    /\ da_events = <<>>
    /\ da_alive = TRUE
    /\ da_effects = <<>>
    /\ da_vote_count = [v \in Views |-> 0]
    /\ da_append_failures = 0
    /\ da_inputs = 0
    /\ vote_collector = NoCollector
    /\ da_cert_count = [v \in 0..(MaxView + 1) |-> 0]
    /\ da_quorum_observed = {}

\* QuorumProposalTaskState as the node creates it: nothing proposed beyond the
\* view the node starts in, no dependency task.
QpTaskInit ==
    /\ latest_proposed_view = cur_view
    /\ proposal_dependencies = {}
    /\ dep = [v \in DepViews |-> NoTask]
    /\ qp_events = <<>>
    /\ qp_storage_failed = FALSE
    /\ accepted = [v \in DepViews |-> 0]
    /\ sent = [v \in DepViews |-> 0]

\* QuorumProposalRecvTaskState as the node creates it, no proposal in hand.
RecvTaskInit ==
    /\ recv_cur_view = cur_view
    /\ recv_pc = "idle"
    /\ recv_p = NoRecvProposal
    /\ recv_parent = FALSE
    /\ recv_storage_failed = FALSE
    /\ recv_out = <<>>
    /\ recv_grade = "none"
    /\ recv_lock_log = <<>>
    /\ leaf_store = {<<cur_view, "a">>}
    /\ leaf_of_view = [v \in Views |-> IF v = cur_view THEN "a" ELSE "none"]

DaInit ==
    /\ \E payload \in {"none", "a"} : ConsensusNew(GenesisView, GenesisView, payload)
    /\ StorageInit(GenesisView)
    /\ \E stake \in BOOLEAN : DaTaskInit(stake)
    /\ num_nodes = 1
    /\ QpTaskInit
    /\ RecvTaskInit
    /\ CommitteeInit
    /\ MessageInit

\* The network delivers a DA proposal: DaProposalRecv(proposal, sender) is broadcast.
RecvDaProposal(p) ==
    /\ da_alive
    /\ da_inputs < MaxDaInputs
    /\ da_inputs' = da_inputs + 1
    /\ da_events' = Append(da_events, DaEvent("DaProposalRecv", p.view, p))
    /\ UNCHANGED <<cur_view, saved_payloads, validated_state_map, storage_da, da_has_stake,
                   da_cur_view, da_alive, da_effects, da_vote_count, da_append_failures>>

\* update_view in another task: Consensus.cur_view advances and ViewChange(v) is broadcast.
UpdateViewDa(v) ==
    /\ da_alive
    /\ da_inputs < MaxDaInputs
    /\ v > cur_view
    /\ da_inputs' = da_inputs + 1
    /\ cur_view' = v
    /\ da_events' = Append(da_events, DaEvent("ViewChange", v, NoProposal))
    /\ UNCHANGED <<saved_payloads, validated_state_map, storage_da, da_has_stake,
                   da_cur_view, da_alive, da_effects, da_vote_count, da_append_failures>>

\* The Shutdown event is broadcast.
ShutdownDa ==
    /\ da_alive
    /\ da_inputs < MaxDaInputs
    /\ da_inputs' = da_inputs + 1
    /\ da_events' = Append(da_events, DaEvent("Shutdown", 0, NoProposal))
    /\ UNCHANGED <<cur_view, saved_payloads, validated_state_map, storage_da, da_has_stake,
                   da_cur_view, da_alive, da_effects, da_vote_count, da_append_failures>>

\* The network delivers a DA certificate for view v: DaCertificateRecv is broadcast
\* and the node has seen a DA quorum for v.
RecvDaCertificate(v) ==
    /\ da_alive
    /\ da_inputs < MaxDaInputs
    /\ da_inputs' = da_inputs + 1
    /\ da_events' = Append(da_events, DaEvent("DaCertificateRecv", v, NoProposal))
    /\ da_quorum_observed' = da_quorum_observed \cup {v}
    /\ UNCHANGED <<cur_view, saved_payloads, validated_state_map, storage_da, da_has_stake,
                   da_cur_view, da_alive, da_effects, da_vote_count, da_append_failures,
                   vote_collector, da_cert_count>>

\* The network delivers a DA vote: DaVoteRecv(vote) is broadcast.
RecvDaVote(vote) ==
    /\ da_alive
    /\ da_inputs < MaxDaInputs
    /\ da_inputs' = da_inputs + 1
    /\ da_events' = Append(da_events, [type |-> "DaVoteRecv", view |-> vote.view,
                                        p |-> NoProposal, vote |-> vote])
    /\ UNCHANGED <<cur_view, saved_payloads, validated_state_map, storage_da, da_has_stake,
                   da_cur_view, da_alive, da_effects, da_vote_count, da_append_failures,
                   da_collector_vars>>

\* The arm with the staleness test reading cur_view - 1 in every view: in the
\* genesis view the u64 subtraction wraps to a view above every proposal's.
HandleDaProposalRecv_NoGenesisGuard(p) ==
    LET stale == da_cur_view = GenesisView \/ p.view < da_cur_view - 1
        dup == saved_payloads[p.view] # "none"
        valid == ~stale /\ ~dup /\ p.sender = "leader" /\ p.sig
    IN  /\ da_events' = IF valid
                        THEN Append(Tail(da_events), DaEvent("DaProposalValidated", p.view, p))
                        ELSE Tail(da_events)
        /\ da_effects' = IF valid THEN <<Effect("DaProposalValidated", p)>> ELSE <<>>
        /\ UNCHANGED <<cur_view, saved_payloads, validated_state_map, storage_da,
                       da_has_stake, da_cur_view, da_alive, da_vote_count,
                       da_append_failures, da_inputs>>

\* handle, arm DaProposalRecv: stale, duplicate, wrong-leader and bad-signature
\* proposals are thrown away; otherwise DaProposalValidated is broadcast. The
\* staleness test reads cur_view - 1 only when cur_view is not the genesis view.
HandleDaProposalRecv(p) ==
    LET stale == da_cur_view # GenesisView /\ p.view < da_cur_view - 1
        dup == saved_payloads[p.view] # "none"
        valid == ~stale /\ ~dup /\ p.sender = "leader" /\ p.sig
    IN  /\ da_events' = IF valid
                        THEN Append(Tail(da_events), DaEvent("DaProposalValidated", p.view, p))
                        ELSE Tail(da_events)
        /\ da_effects' = IF valid THEN <<Effect("DaProposalValidated", p)>> ELSE <<>>
        /\ UNCHANGED <<cur_view, saved_payloads, validated_state_map, storage_da,
                       da_has_stake, da_cur_view, da_alive, da_vote_count,
                       da_append_failures, da_inputs>>

\* handle, arm DaProposalValidated, from the vid_commitment computation on: sign the
\* vote, broadcast DaVoteSend, then record the view and the payload in Consensus.
\* done: the steps of this run so far.
DaVoteAndRecord(p, sign_ok, done) ==
    IF ~sign_ok
    THEN /\ da_effects' = done
         /\ UNCHANGED <<saved_payloads, validated_state_map, da_vote_count>>
    ELSE /\ da_effects' = done \o <<Effect("DaVoteSend", p),
                                     Effect("update_validated_state_map", p),
                                     Effect("update_saved_payloads", p)>>
         /\ da_vote_count' = [da_vote_count EXCEPT ![p.view] = @ + 1]
         /\ validated_state_map' = update_validated_state_map(validated_state_map, p.view, "Da")
         /\ saved_payloads' = update_saved_payloads(saved_payloads, p.view, p.txns)

\* The handler with the early return on a failed append_da left out.
HandleDaProposalValidated_VoteOnFailure(p, append_ok, sign_ok) ==
    /\ da_events' = Tail(da_events)
    /\ UNCHANGED <<cur_view, da_has_stake, da_cur_view, da_alive, da_inputs>>
    /\ IF cur_view > p.view + 1
       THEN /\ da_effects' = <<>>
            /\ UNCHANGED <<saved_payloads, validated_state_map, storage_da,
                           da_vote_count, da_append_failures>>
       ELSE IF ~da_has_stake
       THEN /\ da_effects' = <<Effect("DaProposal", p)>>
            /\ UNCHANGED <<saved_payloads, validated_state_map, storage_da,
                           da_vote_count, da_append_failures>>
       ELSE /\ storage_da' = IF append_ok THEN storage_da \cup {p} ELSE storage_da
            /\ da_append_failures' = da_append_failures + (IF append_ok THEN 0 ELSE 1)
            /\ DaVoteAndRecord(p, sign_ok,
                   <<Effect("DaProposal", p),
                     Effect(IF append_ok THEN "append_da" ELSE "append_da failed", p)>>)

\* The handler dropping a validated proposal one view later than it does.
HandleDaProposalValidated_LateDrop(p, append_ok, sign_ok) ==
    /\ da_events' = Tail(da_events)
    /\ UNCHANGED <<cur_view, da_has_stake, da_cur_view, da_alive, da_inputs>>
    /\ IF cur_view > p.view + 2
       THEN /\ da_effects' = <<>>
            /\ UNCHANGED <<saved_payloads, validated_state_map, storage_da,
                           da_vote_count, da_append_failures>>
       ELSE IF ~da_has_stake
       THEN /\ da_effects' = <<Effect("DaProposal", p)>>
            /\ UNCHANGED <<saved_payloads, validated_state_map, storage_da,
                           da_vote_count, da_append_failures>>
       ELSE IF ~append_ok
       THEN /\ da_effects' = <<Effect("DaProposal", p), Effect("append_da failed", p)>>
            /\ da_append_failures' = da_append_failures + 1
            /\ UNCHANGED <<saved_payloads, validated_state_map, storage_da, da_vote_count>>
       ELSE /\ storage_da' = storage_da \cup {p}
            /\ UNCHANGED da_append_failures
            /\ DaVoteAndRecord(p, sign_ok,
                               <<Effect("DaProposal", p), Effect("append_da", p)>>)

\* handle, arm DaProposalValidated. append_ok: storage.append_da returned Ok;
\* sign_ok: DaVote::create_signed_vote returned Ok.
HandleDaProposalValidated(p, append_ok, sign_ok) ==
    /\ da_events' = Tail(da_events)
    /\ UNCHANGED <<cur_view, da_has_stake, da_cur_view, da_alive, da_inputs>>
    /\ IF cur_view > p.view + 1
       THEN /\ da_effects' = <<>>
            /\ UNCHANGED <<saved_payloads, validated_state_map, storage_da,
                           da_vote_count, da_append_failures>>
       ELSE IF ~da_has_stake
       THEN /\ da_effects' = <<Effect("DaProposal", p)>>
            /\ UNCHANGED <<saved_payloads, validated_state_map, storage_da,
                           da_vote_count, da_append_failures>>
       ELSE IF ~append_ok
       THEN /\ da_effects' = <<Effect("DaProposal", p), Effect("append_da failed", p)>>
            /\ da_append_failures' = da_append_failures + 1
            /\ UNCHANGED <<saved_payloads, validated_state_map, storage_da, da_vote_count>>
       ELSE /\ storage_da' = storage_da \cup {p}
            /\ UNCHANGED da_append_failures
            /\ DaVoteAndRecord(p, sign_ok,
                               <<Effect("DaProposal", p), Effect("append_da", p)>>)

\* handle, arm ViewChange: only a strictly higher view (or the initial 0 -> 0) is taken.
HandleViewChangeDa(v) ==
    /\ da_events' = Tail(da_events)
    /\ da_effects' = <<>>
    /\ da_cur_view' = IF (v # 0 \/ da_cur_view > 0) /\ da_cur_view >= v
                      THEN da_cur_view ELSE v
    /\ UNCHANGED <<cur_view, saved_payloads, validated_state_map, storage_da, da_has_stake,
                   da_alive, da_vote_count, da_append_failures, da_inputs>>

\* handle, arm Shutdown: the task completes.
HandleShutdownDa ==
    /\ da_events' = Tail(da_events)
    /\ da_effects' = <<>>
    /\ da_alive' = FALSE
    /\ UNCHANGED <<cur_view, saved_payloads, validated_state_map, storage_da, da_has_stake,
                   da_cur_view, da_vote_count, da_append_failures, da_inputs>>

threshold_calculator_Ceil(num_live, num_total) == (2 * num_total + 2) \div 3 + 1
\* The test suite's threshold calculator: 2 * num_total / 3 + 1 in integer
\* arithmetic; the number of live nodes is not used.
threshold_calculator(num_live, num_total) == (2 * num_total) \div 3 + 1

\* The accumulator takes a vote when its signer is a member of the DA committee
\* and has no vote recorded yet.
Accepts(col, vote) == vote.signer <= num_nodes /\ vote.signer \notin col.signers

\* handle_vote_event of the accumulator col on a vote: a vote for another view
\* is refused; at the threshold it broadcasts the certificate (DacSend) and
\* completes, which leaves vote_collector empty.
Accumulate(col, vote) ==
    LET signers == IF Accepts(col, vote) THEN col.signers \cup {vote.signer} ELSE col.signers
        formed == /\ vote.view = col.view
                  /\ Accepts(col, vote)
                  /\ Cardinality(signers) >= threshold_calculator(num_nodes, num_nodes)
    IN  /\ vote_collector' = IF formed THEN NoCollector
                             ELSE IF vote.view = col.view
                                  THEN [col EXCEPT !.signers = signers]
                                  ELSE col
        /\ da_cert_count' = IF formed THEN [da_cert_count EXCEPT ![vote.view] = @ + 1]
                            ELSE da_cert_count
        /\ da_quorum_observed' = IF formed THEN da_quorum_observed \cup {vote.view}
                                 ELSE da_quorum_observed
        /\ da_effects' = IF formed THEN <<Effect("DacSend", NoProposal)>> ELSE <<>>

\* The arm starting a new accumulator for a vote of the collector's own view too.
HandleDaVoteRecv_ReplaceOnEqual(vote) ==
    /\ da_events' = Tail(da_events)
    /\ UNCHANGED <<cur_view, saved_payloads, validated_state_map, storage_da, da_has_stake,
                   da_cur_view, da_alive, da_vote_count, da_append_failures, da_inputs>>
    /\ IF ~Leader(vote.view)
       THEN da_effects' = <<>> /\ UNCHANGED da_collector_vars
       ELSE IF ~vote_collector.live \/ vote.view >= vote_collector.view
       THEN Accumulate([view |-> vote.view, signers |-> {}, live |-> TRUE], vote)
       ELSE Accumulate(vote_collector, vote)

\* handle, arm DaVoteRecv: only the DA leader of the vote's view collects; with no
\* collector, or one for a lower view, a new accumulator is created with the vote;
\* otherwise the vote goes to the collector in place.
HandleDaVoteRecv(vote) ==
    /\ da_events' = Tail(da_events)
    /\ UNCHANGED <<cur_view, saved_payloads, validated_state_map, storage_da, da_has_stake,
                   da_cur_view, da_alive, da_vote_count, da_append_failures, da_inputs>>
    /\ IF ~Leader(vote.view)
       THEN da_effects' = <<>> /\ UNCHANGED da_collector_vars
       ELSE IF ~vote_collector.live \/ vote.view > vote_collector.view
       THEN Accumulate([view |-> vote.view, signers |-> {}, live |-> TRUE], vote)
       ELSE Accumulate(vote_collector, vote)

\* handle, arm `_`: an event the DA task has no arm for is taken off the stream.
HandleOtherDa ==
    /\ da_events' = Tail(da_events)
    /\ da_effects' = <<>>
    /\ UNCHANGED <<cur_view, saved_payloads, validated_state_map, storage_da, da_has_stake,
                   da_cur_view, da_alive, da_vote_count, da_append_failures, da_inputs,
                   da_collector_vars>>

\* DaTaskState::handle on the next event of the stream.
DaHandle ==
    /\ da_alive
    /\ da_events # <<>>
    /\ LET e == Head(da_events)
       IN  \/ /\ e.type = "DaProposalRecv"
              /\ HandleDaProposalRecv(e.p)
              /\ UNCHANGED da_collector_vars
           \/ /\ e.type = "DaProposalValidated"
              /\ \E append_ok, sign_ok \in BOOLEAN :
                    HandleDaProposalValidated(e.p, append_ok, sign_ok)
              /\ UNCHANGED da_collector_vars
           \/ /\ e.type = "ViewChange"
              /\ HandleViewChangeDa(e.view)
              /\ UNCHANGED da_collector_vars
           \/ /\ e.type = "Shutdown"
              /\ HandleShutdownDa
              /\ UNCHANGED da_collector_vars
           \/ /\ e.type = "DaVoteRecv"
              /\ HandleDaVoteRecv(e.vote)
           \/ /\ e.type = "DaCertificateRecv"
              /\ HandleOtherDa

DaNext ==
    \/ \E p \in DaProposals : RecvDaProposal(p) /\ UNCHANGED <<da_rest, da_collector_vars>>
    \/ \E v \in Views : UpdateViewDa(v) /\ UNCHANGED <<da_rest, da_collector_vars>>
    \/ ShutdownDa /\ UNCHANGED <<da_rest, da_collector_vars>>
    \/ \E v \in Views : RecvDaCertificate(v) /\ UNCHANGED da_rest
    \/ DaHandle /\ UNCHANGED da_rest

SpecDa == DaInit /\ [][DaNext]_da_vars

\* The DA leader's side: a node of a committee of one or two receives DA votes
\* and DA certificates.
DaVoteInit ==
    /\ ConsensusNew(GenesisView, GenesisView, "none")
    /\ StorageInit(GenesisView)
    /\ DaTaskInit(TRUE)
    /\ num_nodes \in CommitteeSizes
    /\ QpTaskInit
    /\ RecvTaskInit
    /\ CommitteeInit
    /\ MessageInit

DaVoteNext ==
    \/ \E vote \in DaVotes : RecvDaVote(vote) /\ UNCHANGED da_rest
    \/ \E v \in Views : RecvDaCertificate(v) /\ UNCHANGED da_rest
    \/ DaHandle /\ UNCHANGED da_rest

SpecDaVote == DaVoteInit /\ [][DaVoteNext]_da_vars

\* ------------------------------------------------------- Consensus, continued

\* Consensus::update_high_qc: only a QC of a strictly higher view replaces high_qc;
\* anything else is an error that leaves it alone.
update_high_qc(hq, q) == IF q > hq THEN q ELSE hq

\* Consensus::update_last_proposed_view: Ok when the proposal's view is above every
\* view already in last_proposals.
update_last_proposed_view_ok(proposals, v) == \A u \in proposals : v > u

\* ------------------------------------------------- proposal dependency tasks

\* The closure of create_event_dependency: the view whose dependency of kind k the
\* event e completes, -1 when e is not the variant that k waits for.
EventView(k, e) ==
    CASE k = "Qc" -> IF e.type = "UpdateHighQc" THEN e.view + 1 ELSE -1
      [] k = "TimeoutCert" -> IF e.type = "QcFormedTimeout" THEN e.view + 1 ELSE -1
      [] k = "ViewSyncCert" ->
            IF e.type = "ViewSyncFinalizeCertificate2Recv" THEN e.view ELSE -1
      [] k = "Proposal" -> IF e.type = "QuorumProposalRecv" THEN e.view + 1 ELSE -1
      [] k = "PayloadAndMetadata" ->
            IF e.type = "SendPayloadCommitmentAndMetadata" THEN e.view ELSE -1
      [] k = "VidShare" -> IF e.type = "VidDisperseSend" THEN e.view ELSE -1

\* EventDependency: a dependency not completed yet completes with the first event
\* of its receiver that its closure accepts.
Mark(slots, e, v) ==
    [k \in SlotKinds |-> IF slots[k] = NoEvent /\ EventView(k, e) = v THEN e ELSE slots[k]]

RECURSIVE MarkAll(_, _, _)
MarkAll(slots, events, v) ==
    IF events = <<>> THEN slots ELSE MarkAll(Mark(slots, Head(events), v), Tail(events), v)

\* An event is broadcast: every dependency task still waiting sees it.
Observe(d, e) ==
    [v \in DepViews |-> IF d[v].st = "waiting"
                        THEN [d[v] EXCEPT !.slots = Mark(@, e, v)]
                        ELSE d[v]]

\* create_and_complete_dependencies, the match on the event: the dependency that
\* the event handled right now completes. QcFormed(Left) completes none.
Seed(e) ==
    [k \in SlotKinds |->
        IF \/ k = "PayloadAndMetadata" /\ e.type = "SendPayloadCommitmentAndMetadata"
           \/ k = "Proposal" /\ e.type = "QuorumProposalRecv"
           \/ k = "TimeoutCert" /\ e.type = "QcFormedTimeout"
           \/ k = "ViewSyncCert" /\ e.type = "ViewSyncFinalizeCertificate2Recv"
           \/ k = "VidShare" /\ e.type = "VidDisperseSend"
           \/ k = "Qc" /\ e.type = "UpdateHighQc"
        THEN e ELSE NoEvent]

\* The dependency chain without the proposal dependency in its third case.
Completed_QcAlone(v, slots) ==
    /\ slots["PayloadAndMetadata"] # NoEvent /\ slots["VidShare"] # NoEvent
    /\ \/ slots["TimeoutCert"] # NoEvent
       \/ slots["ViewSyncCert"] # NoEvent
       \/ slots["Qc"] # NoEvent

\* create_and_complete_dependencies, the chain it returns: And[Or[And[
\* Or[And[payload, vid]], Or[And[timeout], And[view_sync], And[qc, proposal]]]]],
\* the last being And[qc] for view 1 and below.
Completed(v, slots) ==
    /\ slots["PayloadAndMetadata"] # NoEvent /\ slots["VidShare"] # NoEvent
    /\ \/ slots["TimeoutCert"] # NoEvent
       \/ slots["ViewSyncCert"] # NoEvent
       \/ IF v > 1
          THEN slots["Qc"] # NoEvent /\ slots["Proposal"] # NoEvent
          ELSE slots["Qc"] # NoEvent

\* The view change evidence with the timeout certificate taken first.
proposal_certificate_TimeoutFirst(v, slots) ==
    LET cert == IF slots["TimeoutCert"] # NoEvent
                THEN slots["TimeoutCert"]
                ELSE slots["ViewSyncCert"]
    IN  IF cert = NoEvent THEN NoEvent
        ELSE IF cert.type = "ViewSyncFinalizeCertificate2Recv" /\ cert.view = v THEN cert
        ELSE IF cert.type = "QcFormedTimeout" /\ cert.view + 1 = v THEN cert
        ELSE NoEvent

\* handle_dep_result, proposal_cert: the view sync certificate of the result when
\* there is one, else its timeout certificate; publish_proposal then keeps it
\* only if is_valid_for_view holds for the task's view (a view sync certificate
\* of that view, a timeout certificate of the view before).
proposal_certificate(v, slots) ==
    LET cert == IF slots["ViewSyncCert"] # NoEvent
                THEN slots["ViewSyncCert"]
                ELSE slots["TimeoutCert"]
    IN  IF cert = NoEvent THEN NoEvent
        ELSE IF cert.type = "ViewSyncFinalizeCertificate2Recv" /\ cert.view = v THEN cert
        ELSE IF cert.type = "QcFormedTimeout" /\ cert.view + 1 = v THEN cert
        ELSE NoEvent

\* A dependency task that has not finished, failed or been cancelled.
Running(t) == t.st \in {"waiting", "fetch", "collect", "header", "sleep"}

\* create_dependency_task_if_new without the leader test.
create_dependency_task_if_new_AnyNode(d, deps, latest, v, e, rest) ==
    IF \/ v <= latest
       \/ v \in deps
    THEN [dep |-> d, deps |-> deps, created |-> FALSE]
    ELSE [dep |-> [d EXCEPT ![v] = [st |-> "waiting",
                                    slots |-> MarkAll(Seed(e), rest, v),
                                    aux |-> 0, cert |-> NoEvent]],
          deps |-> deps \cup {v},
          created |-> TRUE]

\* create_dependency_task_if_new without the test against latest_proposed_view.
create_dependency_task_if_new_AlreadyProposed(d, deps, latest, v, e, rest) ==
    IF \/ ~Leader(v)
       \/ v \in deps
    THEN [dep |-> d, deps |-> deps, created |-> FALSE]
    ELSE [dep |-> [d EXCEPT ![v] = [st |-> "waiting",
                                    slots |-> MarkAll(Seed(e), rest, v),
                                    aux |-> 0, cert |-> NoEvent]],
          deps |-> deps \cup {v},
          created |-> TRUE]

\* create_dependency_task_if_new: d and deps after the call for view v on event e,
\* rest being the events broadcast after e and not handled yet (the cloned receiver
\* of the new task holds them).
create_dependency_task_if_new(d, deps, latest, v, e, rest) ==
    IF \/ ~Leader(v)
       \/ v <= latest
       \/ v \in deps
    THEN [dep |-> d, deps |-> deps, created |-> FALSE]
    ELSE [dep |-> [d EXCEPT ![v] = [st |-> "waiting",
                                    slots |-> MarkAll(Seed(e), rest, v),
                                    aux |-> 0, cert |-> NoEvent]],
          deps |-> deps \cup {v},
          created |-> TRUE]

\* update_latest_proposed_view: the dependency tasks of the views up to new_view
\* are removed and cancelled.
CancelUpTo(d, deps, latest, new_view) ==
    [v \in DepViews |-> IF v > latest /\ v <= new_view /\ v \in deps /\ Running(d[v])
                        THEN [st |-> "cancelled", slots |-> NoSlots, aux |-> 0, cert |-> NoEvent]
                        ELSE d[v]]

\* ------------------------------------------------------ quorum proposal task

\* The events other tasks and the network put on the stream.
QpInputs ==
    {QpEvent(t, v, TRUE) : t \in {"SendPayloadCommitmentAndMetadata", "VidDisperseSend"},
                           v \in DepViews}
    \cup {QpEvent("ViewSyncFinalizeCertificate2Recv", v, ok) : v \in DepViews, ok \in BOOLEAN}
    \cup {QpEvent(t, v, TRUE) : t \in {"QcFormedQc", "QcFormedTimeout", "UpdateHighQc"},
                                v \in CertViews}
    \cup {QpEvent("QuorumProposalRecv", v, TRUE) : v \in CertViews \ {GenesisView}}

\* handle, the arms that only call create_dependency_task_if_new: QcFormed(Right),
\* SendPayloadCommitmentAndMetadata, ViewSyncFinalizeCertificate2Recv (returning
\* early on an invalid certificate) and VidDisperseSend.
HandleCreate(e, rest, d) ==
    LET v == IF e.type = "QcFormedTimeout" THEN e.view + 1 ELSE e.view
        r == IF e.type = "ViewSyncFinalizeCertificate2Recv" /\ ~e.valid
             THEN [dep |-> d, deps |-> proposal_dependencies, created |-> FALSE]
             ELSE create_dependency_task_if_new(d, proposal_dependencies,
                                                latest_proposed_view, v, e, rest)
    IN  /\ dep' = r.dep
        /\ proposal_dependencies' = r.deps
        /\ qp_events' = rest
        /\ qp_storage_failed' = FALSE
        /\ UNCHANGED <<latest_proposed_view, high_qc, storage_high_qc>>

\* handle, arm QcFormed(Left): the QC is compared with high_qc only to trace, and
\* UpdateHighQc(qc) is broadcast.
HandleQcFormedQc(e, rest, d) ==
    LET u == QpEvent("UpdateHighQc", e.view, TRUE)
    IN  /\ qp_events' = Append(rest, u)
        /\ dep' = Observe(d, u)
        /\ qp_storage_failed' = FALSE
        /\ UNCHANGED <<proposal_dependencies, latest_proposed_view, high_qc, storage_high_qc>>

\* handle, arms QuorumProposalRecv and QuorumProposalSend: update_latest_proposed_view,
\* return when it fails; QuorumProposalRecv then creates the task of the next view.
HandleProposal(e, rest, d) ==
    IF ~(latest_proposed_view < e.view)
    THEN /\ dep' = d
         /\ qp_events' = rest
         /\ qp_storage_failed' = FALSE
         /\ UNCHANGED <<proposal_dependencies, latest_proposed_view, high_qc, storage_high_qc>>
    ELSE LET d2 == CancelUpTo(d, proposal_dependencies, latest_proposed_view, e.view)
             deps2 == proposal_dependencies \ ((latest_proposed_view + 1)..e.view)
             r == IF e.type = "QuorumProposalRecv"
                  THEN create_dependency_task_if_new(d2, deps2, e.view, e.view + 1, e, rest)
                  ELSE [dep |-> d2, deps |-> deps2, created |-> FALSE]
         IN  /\ latest_proposed_view' = e.view
             /\ dep' = r.dep
             /\ proposal_dependencies' = r.deps
             /\ qp_events' = rest
             /\ qp_storage_failed' = FALSE
             /\ UNCHANGED <<high_qc, storage_high_qc>>

\* handle, arm UpdateHighQc: Consensus::update_high_qc, then storage.update_high_qc
\* (an error of either is only logged), then the task of the next view.
\* storage_ok: storage.update_high_qc returned Ok.
HandleUpdateHighQc(e, rest, d, storage_ok) ==
    LET hq == update_high_qc(high_qc, e.view)
        r == create_dependency_task_if_new(d, proposal_dependencies,
                                           latest_proposed_view, e.view + 1, e, rest)
    IN  /\ high_qc' = hq
        /\ storage_high_qc' = IF storage_ok THEN e.view ELSE storage_high_qc
        /\ dep' = r.dep
        /\ proposal_dependencies' = r.deps
        /\ qp_events' = rest
        /\ qp_storage_failed' = ~storage_ok
        /\ UNCHANGED latest_proposed_view

\* QuorumProposalTaskState::handle on event e; rest: the events after e on the
\* stream; d: the dependency tasks as they stand when e is handled.
QpHandle(e, rest, d) ==
    /\ UNCHANGED <<accepted, sent, num_nodes, cur_view, locked_view, last_decided_view,
                   saved_leaves, last_proposals, saved_payloads, validated_state_map,
                   storage_da, da_task_vars, recv_task_vars, committee_vars, aside_vars>>
    /\ CASE e.type \in {"QcFormedTimeout", "SendPayloadCommitmentAndMetadata",
                        "ViewSyncFinalizeCertificate2Recv", "VidDisperseSend"} ->
                HandleCreate(e, rest, d)
         [] e.type = "QcFormedQc" -> HandleQcFormedQc(e, rest, d)
         [] e.type \in {"QuorumProposalRecv", "QuorumProposalSend"} ->
                HandleProposal(e, rest, d)
         [] e.type = "UpdateHighQc" ->
                \E storage_ok \in BOOLEAN : HandleUpdateHighQc(e, rest, d, storage_ok)

\* Another task or the network broadcasts e: the waiting dependency tasks see it and
\* the quorum proposal task handles it ahead of what it has not handled yet.
QpReceive(e) ==
    /\ Len(qp_events) < MaxQpQueue
    /\ QpHandle(e, qp_events, Observe(dep, e))

\* The quorum proposal task handles the oldest event its own tasks broadcast.
QpHandleNext ==
    /\ qp_events # <<>>
    /\ QpHandle(Head(qp_events), Tail(qp_events), dep)

\* --------------------------------------------- dependency task: the handle

\* What a dependency task never touches.
qp_keep == <<num_nodes, cur_view, locked_view, last_decided_view, saved_payloads,
             storage_da, storage_high_qc, da_task_vars, recv_task_vars,
             latest_proposed_view, proposal_dependencies, qp_storage_failed,
             committee_vars, aside_vars>>

\* The dependency chain of the task for view v completed: handle_dep_result starts
\* and reads high_qc; when validated_state_map has no entry for its view the task
\* spawns fetch_proposal and blocks on ValidatedStateUpdated for that view.
DepFire(v) ==
    /\ dep[v].st = "waiting"
    /\ Completed(v, dep[v].slots)
    /\ dep' = [dep EXCEPT ![v].st = IF validated_state_map[high_qc] = "none"
                                    THEN "fetch" ELSE "collect",
                          ![v].aux = high_qc]
    /\ UNCHANGED <<qp_keep, high_qc, validated_state_map, saved_leaves, last_proposals,
                   qp_events, accepted, sent>>

\* ValidatedStateUpdated(u) is broadcast: the dependency tasks blocked on it go on.
Release(d, u) ==
    [v \in DepViews |-> IF d[v].st = "fetch" /\ d[v].aux = u
                        THEN [d[v] EXCEPT !.st = "collect"] ELSE d[v]]

\* The proposal of view u is validated or fetched (by the receive task or by
\* fetch_proposal): its leaf and state are saved and ValidatedStateUpdated(u) is
\* broadcast, which releases the dependency tasks blocked on it.
ValidatedStateUpdated(u) ==
    /\ validated_state_map' = update_validated_state_map(validated_state_map, u, "Leaf")
    /\ saved_leaves' = saved_leaves \cup {u}
    /\ dep' = Release(dep, u)
    /\ UNCHANGED <<qp_keep, high_qc, last_proposals, qp_events, accepted, sent>>

\* handle_dep_result collects the payload and the VID share from the result and
\* calls publish_proposal, up to the block header: parent_leaf_and_state takes the
\* leaf and state of high_qc's view, and fails when they are not there; the
\* payload commitment must be for the task's view.
\* header_ok: BlockHeader::new returned Ok.
DepParent(v, header_ok) ==
    /\ dep[v].st = "collect"
    /\ LET ok == /\ dep[v].slots["PayloadAndMetadata"] # NoEvent
                 /\ dep[v].slots["PayloadAndMetadata"].view = v
                 /\ dep[v].slots["VidShare"] # NoEvent
                 /\ Leader(v)
                 /\ validated_state_map[high_qc] = "Leaf"
                 /\ high_qc \in saved_leaves
                 /\ header_ok
       IN  dep' = [dep EXCEPT ![v] = IF ok THEN [@ EXCEPT !.st = "header", !.aux = high_qc,
                                                         !.cert = proposal_certificate(v, dep[v].slots)]
                                     ELSE [st |-> "failed", slots |-> NoSlots, aux |-> 0, cert |-> NoEvent]]
    /\ UNCHANGED <<qp_keep, high_qc, validated_state_map, saved_leaves, last_proposals,
                   qp_events, accepted, sent>>

\* publish_proposal with the error of update_last_proposed_view dropped.
DepSign_IgnoreStale(v) ==
    /\ dep[v].st = "header"
    /\ IF high_qc # dep[v].aux
       THEN /\ dep' = [dep EXCEPT ![v] = [st |-> "mismatch", slots |-> NoSlots, aux |-> 0, cert |-> NoEvent]]
            /\ UNCHANGED <<last_proposals, accepted>>
       ELSE IF ~update_last_proposed_view_ok(last_proposals, v)
       THEN /\ dep' = [dep EXCEPT ![v].st = "sleep"]
            /\ UNCHANGED <<last_proposals, accepted>>
       ELSE /\ last_proposals' = last_proposals \cup {v}
            /\ accepted' = [accepted EXCEPT ![v] = @ + 1]
            /\ dep' = [dep EXCEPT ![v].st = "sleep"]
    /\ UNCHANGED <<qp_keep, high_qc, validated_state_map, saved_leaves, qp_events, sent>>

\* publish_proposal signing whatever high_qc it reads as justify_qc.
DepSign_NoParentCheck(v) ==
    /\ dep[v].st = "header"
    /\ IF ~update_last_proposed_view_ok(last_proposals, v)
       THEN /\ dep' = [dep EXCEPT ![v] = [st |-> "stale", slots |-> NoSlots, aux |-> 0, cert |-> NoEvent]]
            /\ UNCHANGED <<last_proposals, accepted>>
       ELSE /\ last_proposals' = last_proposals \cup {v}
            /\ accepted' = [accepted EXCEPT ![v] = @ + 1]
            /\ dep' = [dep EXCEPT ![v].st = "sleep"]
    /\ UNCHANGED <<qp_keep, high_qc, validated_state_map, saved_leaves, qp_events, sent>>

\* publish_proposal from the block header to the sleep: high_qc is read again as
\* justify_qc, the proposed leaf must have the parent leaf as its parent, and
\* update_last_proposed_view must take the signed proposal.
DepSign(v) ==
    /\ dep[v].st = "header"
    /\ IF high_qc # dep[v].aux
       THEN /\ dep' = [dep EXCEPT ![v] = [st |-> "mismatch", slots |-> NoSlots, aux |-> 0, cert |-> NoEvent]]
            /\ UNCHANGED <<last_proposals, accepted>>
       ELSE IF ~update_last_proposed_view_ok(last_proposals, v)
       THEN /\ dep' = [dep EXCEPT ![v] = [st |-> "stale", slots |-> NoSlots, aux |-> 0, cert |-> NoEvent]]
            /\ UNCHANGED <<last_proposals, accepted>>
       ELSE /\ last_proposals' = last_proposals \cup {v}
            /\ accepted' = [accepted EXCEPT ![v] = @ + 1]
            /\ dep' = [dep EXCEPT ![v].st = "sleep"]
    /\ UNCHANGED <<qp_keep, high_qc, validated_state_map, saved_leaves, qp_events, sent>>

\* publish_proposal broadcasting whether or not update_last_proposed_view was reached.
DepSend_Unaccepted(v) ==
    /\ dep[v].st \in {"header", "sleep"}
    /\ LET e == QpEvent("QuorumProposalSend", v, TRUE)
       IN  /\ qp_events' = Append(qp_events, e)
           /\ dep' = [Observe(dep, e) EXCEPT ![v] = [st |-> "done", slots |-> NoSlots, aux |-> 0, cert |-> NoEvent]]
    /\ sent' = [sent EXCEPT ![v] = @ + 1]
    /\ UNCHANGED <<qp_keep, high_qc, validated_state_map, saved_leaves, last_proposals,
                   accepted>>

\* publish_proposal after the sleep: QuorumProposalSend is broadcast and the task ends.
DepSend(v) ==
    /\ dep[v].st = "sleep"
    /\ LET e == QpEvent("QuorumProposalSend", v, TRUE)
       IN  /\ qp_events' = Append(qp_events, e)
           /\ dep' = [Observe(dep, e) EXCEPT ![v] = [st |-> "done", slots |-> NoSlots, aux |-> 0, cert |-> NoEvent]]
    /\ sent' = [sent EXCEPT ![v] = @ + 1]
    /\ UNCHANGED <<qp_keep, high_qc, validated_state_map, saved_leaves, last_proposals,
                   accepted>>

Init ==
    /\ ConsensusNew(GenesisView, GenesisView, "none")
    /\ StorageInit(GenesisView)
    /\ DaTaskInit(TRUE)
    /\ num_nodes \in CommitteeSizes
    /\ QpTaskInit
    /\ RecvTaskInit
    /\ CommitteeInit
    /\ MessageInit

Next ==
    \/ \E e \in QpInputs : QpReceive(e)
    \/ QpHandleNext
    \/ \E v \in DepViews : DepFire(v)
    \/ \E u \in CertViews : ValidatedStateUpdated(u)
    \/ \E v \in DepViews, header_ok \in BOOLEAN : DepParent(v, header_ok)
    \/ \E v \in DepViews : DepSign(v)
    \/ \E v \in DepViews : DepSend(v)

Spec == Init /\ [][Next]_vars

\* ------------------------------------------- quorum proposal receive task

\* What handle_quorum_proposal_recv never touches.
recv_keep == <<num_nodes, locked_view, last_decided_view, saved_payloads, last_proposals,
               storage_da, da_task_vars, latest_proposed_view, proposal_dependencies,
               qp_storage_failed, accepted, sent, committee_vars, aside_vars>>

\* Consensus::update_view: the view only moves to a strictly higher one.
update_view(cur, v) == IF v > cur THEN v ELSE cur

\* validate_proposal_view_and_certs: the proposal is not older than the task's view,
\* comes from the leader of its view, and its justify_qc is a QC for the view before.
validate_proposal_view_and_certs(p) ==
    p.view >= recv_cur_view /\ p.certs_ok /\ p.jqc = p.view - 1

\* Something a run of the handler broadcast, stored or counted, with the view it
\* is for (for a metric, the amount it is updated by).
Out(what, view) == <<what, view>>

\* The handler updating the view before it looks at justify_qc.
RecvValidateView_ViewFirst(p) ==
    /\ recv_pc = "idle"
    /\ Len(qp_events) < MaxQpQueue
    /\ recv_storage_failed' = FALSE
    /\ recv_parent' = FALSE
    /\ recv_lock_log' = <<>>
    /\ recv_p' = p
    /\ IF validate_proposal_view_and_certs(p)
       THEN /\ recv_pc' = IF p.qc_valid THEN "parent" ELSE "idle"
            /\ recv_cur_view' = update_view(recv_cur_view, p.view)
            /\ cur_view' = update_view(cur_view, p.view)
            /\ recv_out' = (IF p.view > recv_cur_view
                            THEN <<Out("ViewChange", p.view)>> ELSE <<>>)
                           \o (IF p.qc_valid THEN <<>>
                               ELSE <<Out("metrics.invalid_qc.update", 1)>>)
            /\ recv_grade' = IF p.qc_valid THEN "none" ELSE "Err"
       ELSE /\ recv_pc' = "idle"
            /\ recv_out' = <<>>
            /\ recv_grade' = "Err"
            /\ UNCHANGED <<recv_cur_view, cur_view>>
    /\ UNCHANGED <<recv_keep, high_qc, storage_high_qc, validated_state_map, saved_leaves,
                   dep, qp_events, leaf_store, leaf_of_view>>

\* handle_quorum_proposal_recv up to update_view: the proposal's view and
\* certificates are validated, then its justify_qc (a failure of which is
\* counted in metrics.invalid_qc), then the view is updated.
RecvValidateView(p) ==
    /\ recv_pc = "idle"
    /\ Len(qp_events) < MaxQpQueue
    /\ recv_storage_failed' = FALSE
    /\ recv_parent' = FALSE
    /\ recv_lock_log' = <<>>
    /\ recv_p' = p
    /\ IF validate_proposal_view_and_certs(p) /\ p.qc_valid
       THEN /\ recv_pc' = "parent"
            /\ recv_cur_view' = update_view(recv_cur_view, p.view)
            /\ cur_view' = update_view(cur_view, p.view)
            /\ recv_out' = IF p.view > recv_cur_view
                           THEN <<Out("ViewChange", p.view)>> ELSE <<>>
            /\ recv_grade' = "none"
       ELSE /\ recv_pc' = "idle"
            /\ recv_out' = IF validate_proposal_view_and_certs(p)
                           THEN <<Out("metrics.invalid_qc.update", 1)>> ELSE <<>>
            /\ recv_grade' = "Err"
            /\ UNCHANGED <<recv_cur_view, cur_view>>
    /\ UNCHANGED <<recv_keep, high_qc, storage_high_qc, validated_state_map, saved_leaves,
                   dep, qp_events, leaf_store, leaf_of_view>>

\* The parent leaf is looked up in saved_leaves by justify_qc's leaf commitment and,
\* when it is not there, asked for with fetch_proposal, which on success saves the
\* leaf and its state and broadcasts ValidatedStateUpdated.
\* fetch_ok: fetch_proposal returned Ok.
RecvParent(fetch_ok) ==
    /\ recv_pc = "parent"
    /\ recv_pc' = "store"
    /\ recv_lock_log' = recv_lock_log \o <<"read_lock", "consensus_read", "release">>
    /\ IF recv_p.jqc \in saved_leaves
       THEN /\ recv_parent' = TRUE
            /\ UNCHANGED <<saved_leaves, validated_state_map, dep, recv_out,
                           leaf_store, leaf_of_view>>
       ELSE IF fetch_ok
       THEN /\ recv_parent' = TRUE
            /\ saved_leaves' = saved_leaves \cup {recv_p.jqc}
            /\ validated_state_map' =
                  update_validated_state_map(validated_state_map, recv_p.jqc, "Leaf")
            /\ dep' = Release(dep, recv_p.jqc)
            /\ leaf_store' = leaf_store \cup {<<recv_p.jqc, "a">>}
            /\ leaf_of_view' = [leaf_of_view EXCEPT ![recv_p.jqc] = "a"]
            /\ recv_out' = recv_out \o <<Out("QuorumProposalRequest", recv_p.jqc),
                                          Out("ValidatedStateUpdated", recv_p.jqc)>>
       ELSE /\ recv_parent' = FALSE
            /\ recv_out' = Append(recv_out, Out("QuorumProposalRequest", recv_p.jqc))
            /\ UNCHANGED <<saved_leaves, validated_state_map, dep, leaf_store, leaf_of_view>>
    /\ UNCHANGED <<recv_keep, recv_cur_view, recv_p, recv_storage_failed, cur_view,
                   high_qc, storage_high_qc, qp_events, recv_grade>>

\* Under the read lock: the parent's state must be there, and a justify_qc above
\* high_qc is stored; the handler bails when the store fails.
\* storage_ok: storage.update_high_qc returned Ok.
RecvStore(storage_ok) ==
    /\ recv_pc = "store"
    /\ recv_lock_log' = recv_lock_log \o
          (IF recv_parent /\ validated_state_map[recv_p.jqc] # "Leaf"
           THEN <<"read_lock", "consensus_read", "release">>
           ELSE IF recv_p.jqc > high_qc
           THEN <<"read_lock", "consensus_read", "consensus_read", "storage", "release">>
           ELSE <<"read_lock", "consensus_read", "consensus_read", "release">>)
    /\ IF recv_parent /\ validated_state_map[recv_p.jqc] # "Leaf"
       THEN /\ recv_pc' = "idle"
            /\ recv_grade' = "Err"
            /\ UNCHANGED <<storage_high_qc, recv_storage_failed>>
       ELSE IF recv_p.jqc > high_qc
       THEN IF storage_ok
            THEN /\ storage_high_qc' = recv_p.jqc
                 /\ recv_pc' = "adopt"
                 /\ UNCHANGED <<recv_storage_failed, recv_grade>>
            ELSE /\ recv_storage_failed' = TRUE
                 /\ recv_pc' = "idle"
                 /\ recv_grade' = "Err"
                 /\ UNCHANGED storage_high_qc
       ELSE /\ recv_pc' = "adopt"
            /\ UNCHANGED <<storage_high_qc, recv_storage_failed, recv_grade>>
    /\ UNCHANGED <<recv_keep, recv_cur_view, recv_p, recv_parent, cur_view, high_qc,
                   validated_state_map, saved_leaves, dep, qp_events, recv_out,
                   leaf_store, leaf_of_view>>

\* The handler writing justify_qc over high_qc without Consensus::update_high_qc.
RecvAdopt_Overwrite ==
    /\ recv_pc = "adopt"
    /\ recv_pc' = "validate"
    /\ high_qc' = recv_p.jqc
    /\ LET u == QpEvent("UpdateHighQc", recv_p.jqc, TRUE)
       IN  /\ qp_events' = Append(qp_events, u)
           /\ dep' = Observe(dep, u)
    /\ recv_out' = Append(recv_out, Out("UpdateHighQc", recv_p.jqc))
    /\ recv_lock_log' = recv_lock_log \o <<"write_lock", "consensus_write", "release">>
    /\ UNCHANGED <<recv_keep, recv_cur_view, recv_p, recv_parent, recv_storage_failed,
                   cur_view, storage_high_qc, validated_state_map, saved_leaves, recv_grade,
                   leaf_store, leaf_of_view>>

\* Under the write lock: Consensus::update_high_qc(justify_qc), an error only
\* traced; then UpdateHighQc(justify_qc) is broadcast.
RecvAdopt ==
    /\ recv_pc = "adopt"
    /\ recv_pc' = "validate"
    /\ high_qc' = update_high_qc(high_qc, recv_p.jqc)
    /\ LET u == QpEvent("UpdateHighQc", recv_p.jqc, TRUE)
       IN  /\ qp_events' = Append(qp_events, u)
           /\ dep' = Observe(dep, u)
    /\ recv_out' = Append(recv_out, Out("UpdateHighQc", recv_p.jqc))
    /\ recv_lock_log' = recv_lock_log \o <<"write_lock", "consensus_write", "release">>
    /\ UNCHANGED <<recv_keep, recv_cur_view, recv_p, recv_parent, recv_storage_failed,
                   cur_view, storage_high_qc, validated_state_map, saved_leaves, recv_grade,
                   leaf_store, leaf_of_view>>

validate_proposal_liveness_NoCheckpoint ==
    [saves |-> TRUE,
     grade |-> IF recv_p.jqc > locked_view THEN "Liveness" ELSE "Err",
     locks |-> <<"write_lock", "consensus_write", "consensus_write", "consensus_read",
                 "release">>,
     out |-> <<Out("ValidatedStateUpdated", recv_p.view)>>]
\* validate_proposal_liveness: the proposed leaf and its state are saved, the
\* undecided state is stored and ValidatedStateUpdated is broadcast; only then
\* does the liveness check decide between Ok(Liveness) and an error. The write
\* lock is taken first and dropped after locked_view is read for the check,
\* which comes after the storage call.
validate_proposal_liveness ==
    [saves |-> TRUE,
     grade |-> IF recv_p.jqc > locked_view THEN "Liveness" ELSE "Err",
     locks |-> <<"write_lock", "consensus_write", "consensus_write", "storage",
                 "consensus_read", "release">>,
     out |-> <<Out("update_undecided_state", recv_p.view),
               Out("ValidatedStateUpdated", recv_p.view)>>]

validate_proposal_safety_and_liveness_ValidatedFirst(valid) ==
    IF valid
    THEN [saves |-> TRUE, grade |-> "Fully", locks |-> <<>>,
          out |-> <<Out("QuorumProposalValidated", recv_p.view),
                    Out("ValidatedStateUpdated", recv_p.view)>>]
    ELSE [saves |-> FALSE, grade |-> "Err", locks |-> <<>>, out |-> <<>>]
\* validate_proposal_safety_and_liveness as the receive task calls it: a proposal
\* that passes has its leaf and state saved, ValidatedStateUpdated broadcast and
\* then QuorumProposalValidated; one that fails leaves nothing.
\* valid: the safety or the liveness rule holds and the proposal is well formed.
validate_proposal_safety_and_liveness_recv(valid) ==
    IF valid
    THEN [saves |-> TRUE, grade |-> "Fully", locks |-> <<>>,
          out |-> <<Out("ValidatedStateUpdated", recv_p.view),
                    Out("QuorumProposalValidated", recv_p.view)>>]
    ELSE [saves |-> FALSE, grade |-> "Err", locks |-> <<>>, out |-> <<>>]

\* The end of the handler: validate_proposal_liveness when the parent is missing,
\* validate_proposal_safety_and_liveness otherwise.
RecvValidate(valid) ==
    /\ recv_pc = "validate"
    /\ recv_pc' = "idle"
    /\ LET r == IF recv_parent THEN validate_proposal_safety_and_liveness_recv(valid)
                ELSE validate_proposal_liveness
       IN  /\ recv_out' = recv_out \o r.out
           /\ recv_lock_log' = recv_lock_log \o r.locks
           /\ recv_grade' = r.grade
           /\ IF r.saves
              THEN /\ validated_state_map' =
                         update_validated_state_map(validated_state_map, recv_p.view, "Leaf")
                   /\ saved_leaves' = saved_leaves \cup {recv_p.view}
                   /\ leaf_store' = leaf_store \cup {<<recv_p.view, recv_p.block>>}
                   /\ leaf_of_view' = [leaf_of_view EXCEPT ![recv_p.view] = recv_p.block]
                   /\ dep' = Release(dep, recv_p.view)
              ELSE UNCHANGED <<validated_state_map, saved_leaves, dep, leaf_store, leaf_of_view>>
    /\ UNCHANGED <<recv_keep, recv_cur_view, recv_p, recv_parent, recv_storage_failed,
                   cur_view, high_qc, storage_high_qc, qp_events>>

\* The initializers the node is started from: the genesis one, and reloaded ones
\* whose high QC is not below the anchor leaf.
RecvInit ==
    /\ \E anchor, h \in CertViews :
          /\ anchor <= h
          /\ ConsensusNew(anchor, h, "none")
          /\ StorageInit(h)
    /\ DaTaskInit(TRUE)
    /\ num_nodes \in CommitteeSizes
    /\ QpTaskInit
    /\ RecvTaskInit
    /\ CommitteeInit
    /\ MessageInit

\* The events of the stream that reach high_qc through the quorum proposal task.
RecvQpInputs == {e \in QpInputs : e.type \in {"QcFormedQc", "QuorumProposalRecv"}}

RecvNext ==
    \/ \E p \in RecvProposals : RecvValidateView(p)
    \/ \E fetch_ok \in BOOLEAN : RecvParent(fetch_ok)
    \/ \E storage_ok \in BOOLEAN : RecvStore(storage_ok)
    \/ RecvAdopt
    \/ \E valid \in BOOLEAN : RecvValidate(valid)
    \/ \E e \in RecvQpInputs : QpReceive(e)
    \/ QpHandleNext

SpecRecv == RecvInit /\ [][RecvNext]_vars

\* ------------------------------------------- the committee: propose, vote, decide

\* What the members' proposing, voting and deciding never touches: the tasks of
\* the single node above.
node_vars == <<da_vars, high_qc, locked_view, last_decided_view, saved_leaves,
               last_proposals, storage_high_qc, qp_task_vars, recv_task_vars, aside_vars>>

\* Votes that make a certificate: 2 * 4 / 3 + 1 = 3 in a committee of four.
success_threshold == (2 * Cardinality(Nodes)) \div 3 + 1

\* The vote accumulator of view l.view can form a QC for leaf l: the honest votes
\* cast for l, with the Byzantine members signing whatever is asked of them,
\* reach the threshold.
HasQc(l) ==
    Cardinality({n \in Honest : quorum_votes[n][l.view] = l.block})
        + Cardinality(Byzantine) >= success_threshold

\* A justify_qc for leaf l passes is_valid_cert: the genesis QC, or a formed one.
Certified(l) == l = GenesisLeaf \/ (l \in Leaves /\ leaf_parent[l] # NoLeaf /\ HasQc(l))

RECURSIVE extends_from(_, _)
\* Leaf l is anc or descends from it through the parent links: the safety half
\* of validate_proposal_safety_and_liveness. (PhaseLock::extends_from of the
\* earlier round-based engine also answers true when the walk ends at the
\* genesis leaf; agreement was checked with that answer as well.)
extends_from(l, anc) ==
    IF l = anc THEN TRUE
    ELSE IF l = GenesisLeaf THEN FALSE
    ELSE extends_from(leaf_parent[l], anc)

RECURSIVE LeafChain(_)
\* Leaf l and the leaves below it down to the genesis leaf.
LeafChain(l) == IF l = GenesisLeaf THEN {} ELSE {l} \cup LeafChain(leaf_parent[l])

\* A leader sends a proposal for leaf l whose justify_qc certifies parent. Any
\* member may lead any view, the Byzantine one included, so a view can see two
\* leaves. Only proposals that pass the view and certificate check at the honest
\* members are sent: the justify_qc is a valid QC for the view before the leaf's.
Propose(l, parent) ==
    /\ leaf_parent[l] = NoLeaf
    /\ Certified(parent)
    /\ parent.view = l.view - 1
    /\ leaf_parent' = [leaf_parent EXCEPT ![l] = parent]
    /\ UNCHANGED <<quorum_votes, nodes_cur_view, nodes_locked, nodes_decided, node_vars>>

\* The safety and liveness check of member n on the proposal of leaf l: the leaf
\* extends the leaf n is locked on, or its justify_qc is above n's locked view.
validate_proposal_safety_and_liveness(n, l) ==
    \/ extends_from(l, nodes_locked[n])
    \/ leaf_parent[l].view > nodes_locked[n].view

\* The leaf member n is locked on once it knows the QC for leaf q: the parent of
\* q when the two are in consecutive views and it is above the current lock.
NewLocked(n, q) ==
    IF /\ q # GenesisLeaf
       /\ leaf_parent[q].view + 1 = q.view
       /\ leaf_parent[q].view > nodes_locked[n].view
    THEN leaf_parent[q]
    ELSE nodes_locked[n]

\* The leaves member n has decided once it knows the QC for leaf q: QCs on three
\* consecutive views, chained by their justify_qc, decide the leaf of the first
\* of the three and the leaves below it.
NewDecided(n, q) ==
    IF /\ q # GenesisLeaf
       /\ leaf_parent[q] # GenesisLeaf
       /\ leaf_parent[q].view + 1 = q.view
       /\ leaf_parent[leaf_parent[q]].view + 1 = leaf_parent[q].view
    THEN nodes_decided[n] \cup LeafChain(leaf_parent[leaf_parent[q]])
    ELSE nodes_decided[n]

\* Honest member n receives the proposal of leaf l: view check, safety and
\* liveness, the 3-chain rule on the justify_qc, and at most one vote per view.
HandleProposalAt(n, l) ==
    /\ leaf_parent[l] # NoLeaf
    /\ l.view >= nodes_cur_view[n]
    /\ nodes_cur_view' = [nodes_cur_view EXCEPT ![n] = l.view]
    /\ IF validate_proposal_safety_and_liveness(n, l)
       THEN /\ nodes_locked' = [nodes_locked EXCEPT ![n] = NewLocked(n, leaf_parent[l])]
            /\ nodes_decided' = [nodes_decided EXCEPT ![n] = NewDecided(n, leaf_parent[l])]
            /\ quorum_votes' =
                  IF quorum_votes[n][l.view] = "none"
                  THEN [quorum_votes EXCEPT ![n][l.view] = l.block]
                  ELSE quorum_votes
       ELSE UNCHANGED <<nodes_locked, nodes_decided, quorum_votes>>
    /\ UNCHANGED <<leaf_parent, node_vars>>

\* The accumulator at honest member n forms the QC for leaf l (QcFormed): n
\* advances its locked view and its decided leaves by the 3-chain rule.
QcFormedAt(n, l) ==
    /\ leaf_parent[l] # NoLeaf
    /\ HasQc(l)
    /\ nodes_locked' = [nodes_locked EXCEPT ![n] = NewLocked(n, l)]
    /\ nodes_decided' = [nodes_decided EXCEPT ![n] = NewDecided(n, l)]
    /\ UNCHANGED <<leaf_parent, quorum_votes, nodes_cur_view, node_vars>>

AgreeInit ==
    /\ ConsensusNew(GenesisView, GenesisView, "none")
    /\ StorageInit(GenesisView)
    /\ DaTaskInit(TRUE)
    /\ num_nodes = Cardinality(Nodes)
    /\ QpTaskInit
    /\ RecvTaskInit
    /\ CommitteeInit
    /\ MessageInit

AgreeNext ==
    \/ \E l \in Leaves, parent \in Leaves \cup {GenesisLeaf} : Propose(l, parent)
    \/ \E n \in Honest, l \in Leaves : HandleProposalAt(n, l)
    \/ \E n \in Honest, l \in Leaves : QcFormedAt(n, l)

SpecAgree == AgreeInit /\ [][AgreeNext]_vars

\* ------------------------------------------- versioned messages: the codec

\* The body of a message as bytes: its view, then one byte for its content.
Encode(m) == <<m.view, IF m.body = "a" THEN 1 ELSE 2>>

\* The body bytes are those of a message.
Decodable(b) == Len(b) = 2 /\ b[1] \in Views /\ b[2] \in {1, 2}
Decode(b) == [view |-> b[1], body |-> IF b[2] = 1 THEN "a" ELSE "b"]

\* Version::deserialize: the (major, minor) prefix of the bytes.
VersionOf(bytes) == <<bytes[1], bytes[2]>>

serialize_StrictlyAfter(m, cert) ==
    IF cert.some /\ m.view > cert.new_version_first_view /\ cert.new_version = Upgrade
    THEN [ok |-> TRUE, bytes |-> Upgrade \o Encode(m), err |-> ""]
    ELSE IF cert.some /\ m.view >= cert.new_version_first_view /\ cert.new_version # Upgrade
    THEN [ok |-> FALSE, bytes |-> <<>>, err |-> "unsupported version"]
    ELSE [ok |-> TRUE, bytes |-> Base \o Encode(m), err |-> ""]
\* VersionedMessage::serialize: the version is Upgrade from the certificate's
\* first view on when the certificate names Upgrade, an error from that view on
\* when it names anything else, and Base otherwise; the bytes are the version
\* followed by the body.
serialize(m, cert) ==
    IF cert.some /\ m.view >= cert.new_version_first_view /\ cert.new_version = Upgrade
    THEN [ok |-> TRUE, bytes |-> Upgrade \o Encode(m), err |-> ""]
    ELSE IF cert.some /\ m.view >= cert.new_version_first_view /\ cert.new_version # Upgrade
    THEN [ok |-> FALSE, bytes |-> <<>>, err |-> "unsupported version"]
    ELSE [ok |-> TRUE, bytes |-> Base \o Encode(m), err |-> ""]

\* The outcome of deserialize: Ok(msg) or an error.
Failed(err) == [ok |-> FALSE, msg |-> NoMessage, err |-> err]

deserialize_NoVersionCheck(bytes, cert) ==
    IF Len(bytes) < 2 THEN Failed("no version")
    ELSE IF VersionOf(bytes) \notin {Base, Upgrade} THEN Failed("cannot deserialize")
    ELSE IF ~Decodable(SubSeq(bytes, 3, Len(bytes))) THEN Failed("failed to deserialize")
    ELSE LET msg == Decode(SubSeq(bytes, 3, Len(bytes)))
         IN  IF /\ cert.some
                /\ msg.view >= cert.new_version_first_view
                /\ cert.new_version # Upgrade
             THEN Failed("unsupported version")
             ELSE [ok |-> TRUE, msg |-> msg, err |-> ""]
\* VersionedMessage::deserialize: read the version, decode the body under it,
\* work out the version the certificate expects for the message's view, and
\* refuse the message when the two differ.
deserialize(bytes, cert) ==
    IF Len(bytes) < 2 THEN Failed("no version")
    ELSE IF VersionOf(bytes) \notin {Base, Upgrade} THEN Failed("cannot deserialize")
    ELSE IF ~Decodable(SubSeq(bytes, 3, Len(bytes))) THEN Failed("failed to deserialize")
    ELSE LET msg == Decode(SubSeq(bytes, 3, Len(bytes)))
             upgraded == cert.some /\ msg.view >= cert.new_version_first_view
         IN  IF upgraded /\ cert.new_version # Upgrade
             THEN Failed("unsupported version")
             ELSE IF VersionOf(bytes) # (IF upgraded THEN Upgrade ELSE Base)
             THEN Failed("invalid version number for its view")
             ELSE [ok |-> TRUE, msg |-> msg, err |-> ""]

\* What a step of the codec never touches.
msg_keep == <<da_vars, high_qc, locked_view, last_decided_view, saved_leaves,
              last_proposals, storage_high_qc, qp_task_vars, recv_task_vars,
              committee_vars, vid_shares, requests, response,
              external_stream, external_active, external_waiting, later_vars>>

\* A node whose decided upgrade certificate is cert serializes message m and
\* puts the bytes on the network.
SendMessage(m, cert) ==
    /\ wire' = serialize(m, cert).bytes
    /\ wire_sent' = [m |-> m, cert |-> cert, ok |-> serialize(m, cert).ok, honest |-> TRUE]
    /\ wire_result' = [done |-> FALSE, ok |-> FALSE, msg |-> NoMessage, err |-> "",
                        cert |-> NoUpgradeCert]
    /\ UNCHANGED msg_keep

\* Bytes that no call of serialize produced reach the network: any version
\* prefix, with or without a whole body.
SendBytes(ver, m, whole) ==
    /\ wire' = ver \o (IF whole THEN Encode(m) ELSE <<m.view>>)
    /\ wire_sent' = [m |-> m, cert |-> NoUpgradeCert, ok |-> FALSE, honest |-> FALSE]
    /\ wire_result' = [done |-> FALSE, ok |-> FALSE, msg |-> NoMessage, err |-> "",
                        cert |-> NoUpgradeCert]
    /\ UNCHANGED msg_keep

\* A node whose decided upgrade certificate is cert deserializes the bytes.
ReceiveMessage(cert) ==
    /\ wire # <<>>
    /\ ~wire_result.done
    /\ wire_result' = [done |-> TRUE, ok |-> deserialize(wire, cert).ok,
                        msg |-> deserialize(wire, cert).msg,
                        err |-> deserialize(wire, cert).err, cert |-> cert]
    /\ UNCHANGED <<wire, wire_sent, msg_keep>>

\* A node constructed at genesis, with or without the payload of its anchor
\* leaf, and nothing yet on the network.
MessageSpecInit ==
    /\ \E payload \in Txns \cup {"none"} : ConsensusNew(GenesisView, GenesisView, payload)
    /\ StorageInit(GenesisView)
    /\ DaTaskInit(TRUE)
    /\ num_nodes \in CommitteeSizes
    /\ QpTaskInit
    /\ RecvTaskInit
    /\ CommitteeInit
    /\ MessageInit

MessageNext ==
    \/ \E m \in Messages, cert \in UpgradeCerts : SendMessage(m, cert)
    \/ \E ver \in Versions, m \in Messages, whole \in BOOLEAN : SendBytes(ver, m, whole)
    \/ \E cert \in UpgradeCerts : ReceiveMessage(cert)

SpecMessage == MessageSpecInit /\ [][MessageNext]_vars

\* ------------------------------------------- claims: versioned messages

\* The version the claims name for a message of view v under certificate cert.
Mandated(v, cert) ==
    IF cert.some /\ cert.new_version = Upgrade /\ cert.new_version_first_view <= v
    THEN Upgrade ELSE Base

\* C15: a message serialized under an optional certificate and deserialized under
\* the same certificate comes back equal, and its bytes carry Upgrade when the
\* certificate names Upgrade from a view not above the message's, Base otherwise.
C15_RoundTrip ==
    /\ (wire_sent.honest /\ wire_sent.ok) =>
          VersionOf(wire) = Mandated(wire_sent.m.view, wire_sent.cert)
    /\ (wire_sent.honest /\ wire_sent.ok /\ wire_result.done
            /\ wire_result.cert = wire_sent.cert) =>
          wire_result.ok /\ wire_result.msg = wire_sent.m

\* A message of a view from which Upgrade is in force made the round trip.
C15_Witness ==
    /\ wire_sent.honest /\ wire_result.done /\ wire_result.ok
    /\ wire_result.cert = wire_sent.cert
    /\ wire_sent.cert.some
    /\ VersionOf(wire) = Upgrade
    /\ wire_result.msg.body = "b"

\* C16: deserialize succeeds only on bytes whose version is the one the
\* certificate mandates for the message's view; and under a certificate naming a
\* version other than Upgrade, serialize and deserialize both fail from the
\* certificate's first view on.
C16_VersionMismatchRejected ==
    /\ (wire_result.done /\ wire_result.ok) =>
          VersionOf(wire) = Mandated(wire_result.msg.view, wire_result.cert)
    /\ (wire_result.done /\ Len(wire) = 4 /\ Decodable(SubSeq(wire, 3, 4))
            /\ wire_result.cert.some /\ wire_result.cert.new_version # Upgrade
            /\ wire[3] >= wire_result.cert.new_version_first_view) =>
          ~wire_result.ok
    /\ (wire_sent.honest /\ wire_sent.cert.some /\ wire_sent.cert.new_version # Upgrade
            /\ wire_sent.m.view >= wire_sent.cert.new_version_first_view) =>
          ~wire_sent.ok /\ wire = <<>>

\* A message serialized under Base was refused by a node that has decided an
\* Upgrade certificate in force at the message's view.
C16_Witness ==
    /\ wire_sent.honest /\ wire_sent.ok /\ ~wire_sent.cert.some
    /\ wire_result.done /\ ~wire_result.ok
    /\ wire_result.err = "invalid version number for its view"
    /\ wire_result.cert.some /\ wire_result.cert.new_version = Upgrade
    /\ wire_result.cert.new_version_first_view <= wire_sent.m.view

\* ------------------------------------------- the network response task

\* RequestKind: a VID share of a view for a key, the DA proposal of a view, or
\* the quorum proposal of a view.
RequestKinds ==
    [tag : {"Vid"}, view : Views, key : 1..2]
        \cup [tag : {"DaProposal", "Proposal"}, view : Views, key : {0}]

\* Sha256::digest(bincode::serialize(&req.request)): the bytes of the kind (its
\* variant index, its view, its key), hashed; distinct kinds have distinct digests.
Digest(kind) ==
    <<"sha256", CASE kind.tag = "Vid" -> 0 [] kind.tag = "DaProposal" -> 1 [] OTHER -> 2,
      kind.view, kind.key>>

\* What arrives on the request channel: a DataRequest from a sender (keys 1..3;
\* the members are 1..num_nodes) with a signature by some key over some digest,
\* a message of another kind, or bytes that are no message.
Requests ==
    [form : {"RequestData"}, sender : 1..3, request : RequestKinds,
     signature : [signer : 1..3, digest : {Digest(k) : k \in RequestKinds}]]
        \cup [form : {"Other", "Garbage"}, sender : {1},
              request : {[tag |-> "Proposal", view |-> 0, key |-> 0]},
              signature : {[signer |-> 1, digest |-> <<"sha256", 2, 0, 0>>]}]

\* Makes sure the sender is allowed to send a request: quorum.has_stake(sender).
valid_sender(sender) == sender \in 1..num_nodes

valid_signature_AnyData(req, sender) == req.signature.signer = sender
\* Check the signature: it is the sender's, over the digest of the request kind.
valid_signature(req, sender) ==
    /\ req.signature.signer = sender
    /\ req.signature.digest = Digest(req.request)

\* Consensus::calculate_and_update_vid: with the payload of the view saved, the
\* shares of every quorum member are computed and stored; without it, nothing.
calculate_and_update_vid(shares, view) ==
    IF saved_payloads[view] = "none" THEN shares
    ELSE [shares EXCEPT ![view] = 1..num_nodes]

\* get_or_calc_vid_share: the stored shares after the call. The share for the
\* key is then looked up in them. The second attempt after TXNS_TIMEOUT reads
\* the same Consensus as the first.
get_or_calc_vid_share(view, key) ==
    IF key \in vid_shares[view] THEN vid_shares
    ELSE calculate_and_update_vid(calculate_and_update_vid(vid_shares, view), view)

\* A ResponseMessage, with the data it carries.
Reply(kind, data) == [kind |-> kind, data |-> data]

\* handle_request: the response to a request that passed the checks.
handle_request(req) ==
    CASE req.request.tag = "Vid" ->
            IF req.request.key \in get_or_calc_vid_share(req.request.view, req.request.key)[req.request.view]
            THEN Reply("Found", <<"VidDisperseMsg", req.request.view, req.request.key,
                                  saved_payloads[req.request.view]>>)
            ELSE Reply("NotFound", <<>>)
      [] req.request.tag = "DaProposal" -> Reply("NotFound", <<>>)
      [] OTHER ->
            IF req.request.view \in last_proposals
            THEN Reply("Found", <<"Proposal", req.request.view>>)
            ELSE Reply("NotFound", <<>>)

\* What the response task never touches.
resp_keep == <<da_vars, high_qc, locked_view, last_decided_view, saved_leaves,
               last_proposals, storage_high_qc, qp_task_vars, recv_task_vars,
               committee_vars, wire, wire_sent, wire_result,
               external_stream, external_active, external_waiting, later_vars>>

\* A request arrives from the network.
ReceiveRequest(req) ==
    /\ requests = <<>>
    /\ requests' = <<req>>
    /\ UNCHANGED <<vid_shares, response, resp_keep>>

\* handle_message: bytes that are no message and messages that are no
\* DataRequest get no reply; a DataRequest whose sender or signature fails the
\* checks gets Denied; any other gets the response of handle_request.
handle_message ==
    /\ requests # <<>>
    /\ requests' = Tail(requests)
    /\ LET req == Head(requests)
       IN  IF req.form # "RequestData"
           THEN response' = <<>> /\ UNCHANGED vid_shares
           ELSE IF ~valid_sender(req.sender) \/ ~valid_signature(req, req.sender)
           THEN response' = <<Reply("Denied", <<>>)>> /\ UNCHANGED vid_shares
           ELSE /\ response' = <<handle_request(req)>>
                /\ vid_shares' = IF req.request.tag = "Vid"
                                 THEN get_or_calc_vid_share(req.request.view, req.request.key)
                                 ELSE vid_shares
    /\ UNCHANGED resp_keep

ResponseNext ==
    \/ \E req \in Requests : ReceiveRequest(req)
    \/ handle_message

SpecResponse == MessageSpecInit /\ [][ResponseNext]_vars

\* ------------------------------------------- claims: the response task

\* C17: a DataRequest is answered Denied unless its sender has stake in the
\* quorum committee and its signature is the sender's over the digest of the
\* request kind; and when the answer is Denied, the shared Consensus (the stored
\* VID shares among it) is as it was and the answer carries no data.
C17_DeniedUnlessStakedAndSigned ==
    [][(requests # <<>> /\ requests' = <<>> /\ Head(requests).form = "RequestData") =>
         LET req == Head(requests)
         IN  /\ (~(/\ req.sender \in 1..num_nodes
                   /\ req.signature.signer = req.sender
                   /\ req.signature.digest = Digest(req.request)))
                    => response' = <<[kind |-> "Denied", data |-> <<>>]>>
             /\ (Len(response') = 1 /\ response'[1].kind = "Denied")
                    => /\ vid_shares' = vid_shares
                       /\ saved_payloads' = saved_payloads
                       /\ last_proposals' = last_proposals
                       /\ response'[1].data = <<>>]_vars

\* A request was denied by a node that holds the payload asked for and has
\* stored no share for it.
C17_Witness ==
    /\ requests = <<>>
    /\ response = <<[kind |-> "Denied", data |-> <<>>]>>
    /\ saved_payloads[GenesisView] # "none"
    /\ vid_shares[GenesisView] = {}

\* ------------------------------------------- claims: the receive handler's runs

\* The last run of the handler broadcast or stored this.
Emitted(o) == \E i \in 1..Len(recv_out) : recv_out[i] = o

\* The last run is over, and it found the parent leaf of its proposal in
\* saved_leaves, with the parent's state, without asking for it.
ParentWasPresent ==
    /\ recv_pc = "idle"
    /\ recv_grade # "none"
    /\ recv_parent
    /\ ~Emitted(Out("QuorumProposalRequest", recv_p.jqc))
    /\ validated_state_map[recv_p.jqc] = "Leaf"

\* The four events of a fully validated proposal, in order.
FullRun == <<Out("ViewChange", recv_p.view), Out("UpdateHighQc", recv_p.jqc),
             Out("ValidatedStateUpdated", recv_p.view),
             Out("QuorumProposalValidated", recv_p.view)>>

C20_LivenessViolationDiscarded ==
    [][(recv_pc = "validate" /\ recv_pc' = "idle" /\ ~recv_parent
            /\ recv_p.jqc <= locked_view) =>
         /\ saved_leaves' = saved_leaves
         /\ validated_state_map' = validated_state_map
         /\ ~Emitted(Out("ValidatedStateUpdated", recv_p.view))'
         /\ recv_grade' = "Err"]_vars

\* ------------------------------------------- the external event channel

broadcast_NoOverflow(queue, active, event) ==
    IF active = 0 THEN [queue |-> queue, waiting |-> FALSE]
    ELSE IF Len(queue) = MaxExternal THEN [queue |-> queue, waiting |-> TRUE]
    ELSE [queue |-> Append(queue, event), waiting |-> FALSE]
\* A broadcast on the channel SystemContext::new builds: overflow is set, so a
\* full queue gives up its oldest event; await_active is unset, so with no
\* active receiver (the node's own copies are inactive) the send returns at
\* once and queues nothing. waiting: the send would not have returned.
broadcast(queue, active, event) ==
    IF active = 0 THEN [queue |-> queue, waiting |-> FALSE]
    ELSE IF Len(queue) = MaxExternal THEN [queue |-> Append(Tail(queue), event), waiting |-> FALSE]
    ELSE [queue |-> Append(queue, event), waiting |-> FALSE]

\* What the external channel's users never touch.
ext_keep == <<da_vars, high_qc, locked_view, last_decided_view, saved_leaves,
              last_proposals, storage_high_qc, qp_task_vars, recv_task_vars,
              committee_vars, wire, wire_sent, wire_result, vid_shares, requests, response,
              later_vars>>

\* send_external_event: a consensus task broadcasts an event to the application.
send_external_event(event) ==
    /\ ~external_waiting
    /\ external_stream' = broadcast(external_stream, external_active, event).queue
    /\ external_waiting' = broadcast(external_stream, external_active, event).waiting
    /\ UNCHANGED <<external_active, ext_keep>>

\* The application takes an active receiver of the stream, or drops one; the
\* events queued for nobody go with the last one.
ExternalReceiver(k) ==
    /\ external_active' = k
    /\ external_stream' = IF k = 0 THEN <<>> ELSE external_stream
    /\ UNCHANGED <<external_waiting, ext_keep>>

\* The application reads the oldest event; a waiting broadcast can then go on.
RecvExternal ==
    /\ external_active > 0
    /\ external_stream # <<>>
    /\ external_stream' = Tail(external_stream)
    /\ external_waiting' = FALSE
    /\ UNCHANGED <<external_active, ext_keep>>

ExternalNext ==
    \/ \E event \in {"Decide", "DaProposal", "Error"} : send_external_event(event)
    \/ \E k \in 0..2 : ExternalReceiver(k)
    \/ RecvExternal

SpecExternal == MessageSpecInit /\ [][ExternalNext]_vars

\* ------------------------------------------- claims: the external channel

\* C22: a broadcast on the external channel always completes: on a full channel
\* the oldest event is discarded and the new one queued, and with no active
\* receiver the send returns at once.
C22_ExternalNeverBlocks ==
    /\ [](~external_waiting)
    /\ [][\A event \in {"Decide", "DaProposal", "Error"} :
            (ENABLED send_external_event(event) /\ send_external_event(event)) =>
               /\ (external_active > 0 /\ Len(external_stream) = MaxExternal) =>
                     external_stream' = Append(Tail(external_stream), event)
               /\ external_active = 0 => external_stream' = external_stream]_vars

\* The channel is full of events the application has not read, the newest of
\* them broadcast after the channel was already full.
C22_Witness ==
    /\ external_active > 0
    /\ Len(external_stream) = MaxExternal
    /\ external_stream[1] = "Error"
    /\ external_stream[MaxExternal] = "Decide"
    /\ ~external_waiting

\* C23: every leaf in saved_leaves is the leaf a Leaf entry of
\* validated_state_map names, or an ancestor of such a leaf (counted here as:
\* some leaf of a higher view is named, which every ancestor satisfies).
C23_SavedLeavesReferenced ==
    \A l \in leaf_store :
        \/ validated_state_map[l[1]] = "Leaf" /\ leaf_of_view[l[1]] = l[2]
        \/ \E w \in Views : w > l[1] /\ validated_state_map[w] = "Leaf"

\* C24: in a run of the receive handler, a storage call made while the
\* Consensus write lock is held is followed by the release of the lock, with no
\* read or write of Consensus in between.
C24_StorageThenRelease ==
    \A i \in 1..Len(recv_lock_log) :
        (/\ recv_lock_log[i] = "storage"
         /\ \E j \in 1..(i - 1) :
               /\ recv_lock_log[j] = "write_lock"
               /\ \A k \in (j + 1)..(i - 1) : recv_lock_log[k] # "release")
        => (i < Len(recv_lock_log) /\ recv_lock_log[i + 1] \in {"storage", "release"})

\* ------------------------------------------- claims: the DA task's gates

\* The step is a run of handle on the event at the head of the stream, of this type.
DaRunOn(type) ==
    /\ da_alive
    /\ da_events # <<>>
    /\ Head(da_events).type = type
    /\ Len(da_events') = Len(da_events) - 1 \/ Len(da_events') = Len(da_events)
    /\ da_events' # da_events
    /\ da_inputs' = da_inputs

\* C25: a received DA proposal is answered with DaProposalValidated exactly when
\* it is not stale (the task's view is the genesis view, or the proposal is at
\* most one view behind it), no payload is saved for its view, its sender is the
\* DA leader of its view and its signature validates; otherwise the run emits
\* nothing and changes nothing. In the genesis view nothing is stale.
C25_DaProposalGate ==
    [][DaRunOn("DaProposalRecv") =>
         LET p == Head(da_events).p
             fresh == da_cur_view = GenesisView \/ p.view + 1 >= da_cur_view
             rest == /\ saved_payloads[p.view] = "none"
                     /\ p.sender = "leader"
                     /\ p.sig
         IN  /\ (fresh /\ rest) =>
                    /\ da_effects' = <<Effect("DaProposalValidated", p)>>
                    /\ da_events' = Append(Tail(da_events), DaEvent("DaProposalValidated", p.view, p))
             /\ ~(fresh /\ rest) =>
                    /\ da_effects' = <<>>
                    /\ da_events' = Tail(da_events)
             /\ UNCHANGED <<cur_view, saved_payloads, validated_state_map, storage_da,
                            da_cur_view, da_vote_count, da_alive>>]_da_vars

\* A proposal for a view above the genesis view was validated by a task still in
\* the genesis view.
C25_Witness ==
    /\ da_cur_view = GenesisView
    /\ Len(da_effects) = 1
    /\ da_effects[1].op = "DaProposalValidated"
    /\ da_effects[1].p.view > GenesisView

\* C26: a validated DA proposal is dropped, with no external event and no vote,
\* when Consensus.cur_view is at p.view + 2 or beyond; otherwise the external
\* DaProposal event comes first, and a node without stake in the DA committee
\* stops there: no DaVoteSend, validated_state_map and saved_payloads unchanged.
C26_ValidatedDaProposalGate ==
    /\ [][DaRunOn("DaProposalValidated") =>
            LET p == Head(da_events).p
            IN  /\ cur_view >= p.view + 2 =>
                      /\ da_effects' = <<>>
                      /\ UNCHANGED <<da_vote_count, validated_state_map, saved_payloads,
                                     storage_da>>
                /\ cur_view < p.view + 2 =>
                      /\ da_effects' # <<>>
                      /\ da_effects'[1] = Effect("DaProposal", p)
                /\ (cur_view < p.view + 2 /\ ~da_has_stake) =>
                      /\ da_effects' = <<Effect("DaProposal", p)>>
                      /\ UNCHANGED <<da_vote_count, validated_state_map, saved_payloads,
                                     storage_da>>]_da_vars
    /\ [](~da_has_stake => \A v \in Views : da_vote_count[v] = 0)

\* A validated proposal was dropped because the view had moved two views past it.
C26_Witness ==
    /\ da_has_stake
    /\ cur_view = 2
    /\ da_effects = <<>>
    /\ da_events = <<>>
    /\ da_inputs = 2
    /\ saved_payloads[GenesisView] = "none"
    /\ storage_da = {}
    /\ da_cur_view = 2

\* C27: there is one accumulator at most. A DaVoteRecv for a view this node does
\* not lead leaves it alone. A vote for a view this node leads starts a new
\* accumulator, holding nothing of the old one, exactly when there is none or
\* the vote's view is above the accumulator's; otherwise the vote goes to the
\* accumulator in place, which keeps its view and its votes, or completes.
C27_OneAccumulator ==
    /\ [](vote_collector.live => Leader(vote_collector.view))
    /\ [][DaRunOn("DaVoteRecv") =>
            LET vote == Head(da_events).vote
                new == ~vote_collector.live \/ vote.view > vote_collector.view
            IN  /\ ~Leader(vote.view) => vote_collector' = vote_collector
                /\ (Leader(vote.view) /\ new) =>
                      \/ vote_collector' = NoCollector
                      \/ /\ vote_collector'.live
                         /\ vote_collector'.view = vote.view
                         /\ vote_collector'.signers \subseteq {vote.signer}
                /\ (Leader(vote.view) /\ ~new) =>
                      \/ vote_collector' = NoCollector
                      \/ /\ vote_collector'.live
                         /\ vote_collector'.view = vote_collector.view
                         /\ vote_collector.signers \subseteq vote_collector'.signers
                         /\ vote_collector'.signers \subseteq
                               vote_collector.signers \cup {vote.signer}]_da_vars

\* An accumulator for view 3 holds one vote, after one for view 1 that had a vote.
C27_Witness ==
    /\ vote_collector.live
    /\ vote_collector.view = 3
    /\ Cardinality(vote_collector.signers) = 1
    /\ da_cert_count[1] = 0
    /\ da_inputs = 2
    /\ da_events = <<>>

\* ------------------------------------------- claims: who proposes, and when

\* C28: a proposal dependency task exists for a view, and a QuorumProposalSend is
\* broadcast for a view, only when this node is the leader of that view.
C28_OnlyLeaderProposes ==
    \A v \in DepViews :
        (v \in proposal_dependencies \/ dep[v] # NoTask \/ accepted[v] > 0 \/ sent[v] > 0)
            => Leader(v)

\* In a committee of two the node proposed for view 1, which it leads, and made
\* no task for view 2 on the UpdateHighQc for view 1.
C28_Witness ==
    /\ num_nodes = 2
    /\ sent[1] = 1
    /\ high_qc = 1
    /\ dep[2] = NoTask

\* C29: proposal_dependencies holds no task for a view at or below
\* latest_proposed_view, a task is created only for a view that has none in it,
\* and latest_proposed_view never goes down.
C29_DependencyBookkeeping ==
    /\ [](\A v \in proposal_dependencies : v > latest_proposed_view /\ dep[v] # NoTask)
    /\ [][\A v \in DepViews :
            (dep'[v].st = "waiting" /\ dep[v].st # "waiting") =>
                /\ v \notin proposal_dependencies
                /\ v \in proposal_dependencies'
                /\ v > latest_proposed_view']_vars
    /\ [][latest_proposed_view' >= latest_proposed_view]_vars

\* The proposal of view 1 arrived: the task of view 1 was cancelled and removed,
\* and the task of view 2 is the only one kept.
C29_Witness ==
    /\ latest_proposed_view = 1
    /\ dep[1].st = "cancelled"
    /\ proposal_dependencies = {2}
    /\ Running(dep[2])

\* C30: a dependency task broadcasts QuorumProposalSend for its view only after
\* update_last_proposed_view took its signed proposal, built on a payload
\* commitment for that view; a task refused as stale, or failed, has broadcast
\* nothing and broadcasts nothing.
C30_SendOnlyAfterAccepted ==
    /\ [][\A v \in DepViews :
            sent'[v] # sent[v] =>
                /\ dep[v].st = "sleep"
                /\ v \in last_proposals
                /\ accepted[v] = 1
                /\ sent[v] = 0]_vars
    /\ [](\A v \in DepViews :
            /\ dep[v].st \in {"stale", "failed", "mismatch"} => sent[v] = 0
            /\ dep[v].st \in {"header", "sleep"} =>
                  dep[v].slots["PayloadAndMetadata"].view = v
            /\ dep[v].st = "sleep" => accepted[v] = 1 /\ v \in last_proposals)
    /\ [][\A v \in DepViews :
            dep[v].st \in {"stale", "failed", "mismatch"} => dep'[v] = dep[v]]_vars

\* The task of view 2 broadcast its accepted proposal; the task of view 1, which
\* came to publish after it, was refused as stale and broadcast nothing.
C30_Witness ==
    /\ dep[2].st = "done"
    /\ accepted[2] = 1
    /\ sent[2] = 1
    /\ dep[1].st = "stale"
    /\ accepted[1] = 0
    /\ sent[1] = 0

\* ------------------------------------------- claims: what a proposal carries

\* C31: a dependency task goes on to sign and broadcast its proposal only when
\* the high_qc it reads as justify_qc is the one whose leaf it took as parent for
\* the block header; when high_qc moved in between, the task ends with an error
\* (or is cancelled) and broadcasts nothing.
C31_JustifyQcIsParent ==
    /\ [][\A v \in DepViews :
            (dep[v].st = "header" /\ dep'[v].st # "header") =>
                IF high_qc = dep[v].aux
                THEN dep'[v].st \in {"sleep", "stale", "cancelled"}
                ELSE /\ dep'[v].st \in {"mismatch", "cancelled"}
                     /\ sent'[v] = sent[v]
                     /\ accepted'[v] = accepted[v]]_vars
    /\ [][\A v \in DepViews :
            dep'[v].st = "sleep" /\ dep[v].st # "sleep" =>
                dep[v].st = "header" /\ high_qc = dep[v].aux /\ dep'[v].aux = high_qc]_vars
    /\ [](\A v \in DepViews : dep[v].st = "mismatch" => sent[v] = 0 /\ accepted[v] = 0)

\* high_qc moved from view 0 to view 1 after the task of view 2 had taken the
\* leaf of view 0 as parent: the task ended without a proposal.
C31_Witness ==
    /\ dep[2].st = "mismatch"
    /\ high_qc = 1
    /\ sent[2] = 0

\* C32: the proposal a task signs and broadcasts for view V carries the view sync
\* certificate when the task collected one, else the timeout certificate when it
\* collected one, else none; what it carries is a certificate for V.
C32_EvidencePrecedence ==
    /\ \A v \in DepViews :
          dep[v].st \in {"header", "sleep"} =>
              LET vs == dep[v].slots["ViewSyncCert"]
                  tc == dep[v].slots["TimeoutCert"]
                  c == dep[v].cert
              IN  /\ vs # NoEvent => c = vs
                  /\ (vs = NoEvent /\ tc # NoEvent) => c = tc
                  /\ (vs = NoEvent /\ tc = NoEvent) => c = NoEvent
                  /\ c.type = "ViewSyncFinalizeCertificate2Recv" => c.view = v
                  /\ c.type = "QcFormedTimeout" => c.view + 1 = v
                  /\ c.type \in {"ViewSyncFinalizeCertificate2Recv", "QcFormedTimeout", "none"}
    /\ \A v \in DepViews :
          dep[v].st \notin {"header", "sleep"} => dep[v].cert = NoEvent

\* A task that collected both a timeout certificate and a view sync certificate
\* signed its proposal with the view sync certificate.
C32_Witness ==
    \E v \in DepViews :
        /\ dep[v].st = "sleep"
        /\ dep[v].slots["TimeoutCert"] # NoEvent
        /\ dep[v].slots["ViewSyncCert"] # NoEvent
        /\ dep[v].cert = dep[v].slots["ViewSyncCert"]

\* ------------------------------------------- claims: the receive handler's gates

\* C33: a QuorumProposalRecv that fails the view and certificate checks, or whose
\* justify_qc is not a valid certificate, ends the handler with an error: cur_view,
\* high_qc, saved_leaves and validated_state_map are as before and none of
\* ViewChange, UpdateHighQc, ValidatedStateUpdated, QuorumProposalValidated is
\* emitted; metrics.invalid_qc is updated by 1, once, exactly for the invalid
\* justify_qc of a proposal that passed the other checks.
C33_InvalidInputNoChange ==
    [][(recv_pc = "idle" /\ recv_lock_log' = <<>> /\ recv_p' \in RecvProposals
        /\ <<recv_pc, recv_out, recv_grade, recv_p>>' # <<recv_pc, recv_out, recv_grade, recv_p>>) =>
          LET p == recv_p'
              view_ok == p.view >= recv_cur_view /\ p.certs_ok /\ p.jqc = p.view - 1
          IN  /\ (view_ok /\ p.qc_valid) <=> recv_pc' = "parent"
              /\ ~(view_ok /\ p.qc_valid) =>
                    /\ recv_pc' = "idle"
                    /\ recv_grade' = "Err"
                    /\ UNCHANGED <<cur_view, recv_cur_view, high_qc, saved_leaves,
                                   validated_state_map, leaf_store, storage_high_qc,
                                   qp_events, dep>>
                    /\ recv_out' = IF view_ok
                                   THEN <<Out("metrics.invalid_qc.update", 1)>>
                                   ELSE <<>>]_vars

\* A proposal for a view above the task's, from the leader and with the right
\* certificates but an invalid justify_qc, was turned away and counted.
C33_Witness ==
    /\ recv_pc = "idle"
    /\ recv_grade = "Err"
    /\ recv_out = <<Out("metrics.invalid_qc.update", 1)>>
    /\ recv_p.certs_ok /\ ~recv_p.qc_valid
    /\ recv_p.view > recv_cur_view
    /\ recv_p.view > cur_view

\* C34: in a run of the receive handler, storage.update_high_qc, then
\* Consensus.update_high_qc, then the UpdateHighQc broadcast happen exactly when
\* justify_qc is for a view above high_qc's; for a justify_qc that is not, none
\* of the three happens.
C34_HighQcStepsOnlyWhenHigher ==
    [][(recv_pc = "adopt" /\ recv_pc' = "validate") =>
          IF recv_p.jqc > high_qc
          THEN /\ high_qc' = recv_p.jqc
               /\ recv_out' = Append(recv_out, Out("UpdateHighQc", recv_p.jqc))
               /\ "storage" \in {recv_lock_log[i] : i \in DOMAIN recv_lock_log}
          ELSE /\ high_qc' = high_qc
               /\ recv_out' = recv_out
               /\ qp_events' = qp_events
               /\ "storage" \notin {recv_lock_log[i] : i \in DOMAIN recv_lock_log}]_vars

\* ------------------------------------------- the PhaseLock engine (src/lib.rs)

\* What the PhaseLock engine's own operations never touch.
phaselock_keep == <<da_vars, high_qc, locked_view, last_decided_view, saved_leaves,
                    last_proposals, storage_high_qc, qp_task_vars, recv_task_vars,
                    committee_vars, wire, wire_sent, wire_result, vid_shares, requests,
                    response, external_stream, external_active, external_waiting,
                    request_vars, lock_vars>>

\* The loop of extends_from: parent links are followed through the storage until
\* the node or the zero hash is met, or a leaf is missing.
RECURSIVE extends_from_loop(_, _, _)
extends_from_loop(leaves, parent, node) ==
    IF parent = 0 THEN TRUE
    ELSE IF parent = node THEN TRUE
    ELSE IF leaves[parent] # -1 THEN extends_from_loop(leaves, leaves[parent], node)
    ELSE FALSE

\* PhaseLock::extends_from(leaf, node), parent being leaf.parent.
PhaseLock_extends_from(leaves, parent, node) ==
    IF parent = node THEN TRUE ELSE extends_from_loop(leaves, parent, node)

\* PhaseLock::safe_node(leaf, qc) under the locked certificate (locked_qc is Some
\* from the constructor on).
safe_node(leaves, locked, parent, qc) ==
    IF qc.genesis THEN TRUE
    ELSE PhaseLock_extends_from(leaves, parent, locked.leaf_hash)
            \/ qc.view_number > locked.view_number

\* storage.insert_leaf: a leaf is stored under its hash. The hash of a leaf covers
\* its parent hash, so the parent was made before it: it has a lower number.
insert_leaf(h, parent) ==
    /\ storage_leaves[h] = -1
    /\ parent < h
    /\ storage_leaves' = [storage_leaves EXCEPT ![h] = parent]
    /\ UNCHANGED <<locked_qc, safety_call, timeout_config, int_duration, pause, round_res,
                   phaselock_keep>>

\* The replica locks on the certificate of a stored leaf, for a view above the
\* one it is locked on.
LockQc(h, view) ==
    /\ storage_leaves[h] # -1
    /\ view > locked_qc.view_number
    /\ locked_qc' = PlQc(h, view, FALSE)
    /\ UNCHANGED <<storage_leaves, safety_call, timeout_config, int_duration, pause,
                   round_res, phaselock_keep>>

\* A call of extends_from(leaf, node).
CallExtendsFrom(parent, node) ==
    /\ safety_call' = [fn |-> "extends_from", parent |-> parent, node |-> node,
                       qc |-> PlQc(0, 0, FALSE),
                       result |-> PhaseLock_extends_from(storage_leaves, parent, node)]
    /\ UNCHANGED <<storage_leaves, locked_qc, timeout_config, int_duration, pause,
                   round_res, phaselock_keep>>

\* A call of safe_node(leaf, qc).
CallSafeNode(parent, qc) ==
    /\ safety_call' = [fn |-> "safe_node", parent |-> parent, node |-> locked_qc.leaf_hash,
                       qc |-> qc,
                       result |-> safe_node(storage_leaves, locked_qc, parent, qc)]
    /\ UNCHANGED <<storage_leaves, locked_qc, timeout_config, int_duration, pause,
                   round_res, phaselock_keep>>

\* PhaseLock::init: the driver task starts with the timeout of the configuration;
\* the instance starts out paused.
PhaseLock_init(config) ==
    /\ timeout_config = NoTimeoutConfig
    /\ timeout_config' = config
    /\ int_duration' = config.next_view_timeout
    /\ pause' = TRUE
    /\ round_res' = "started"
    /\ UNCHANGED <<storage_leaves, locked_qc, safety_call, phaselock_keep>>

\* The handle unpauses or pauses the instance.
SetPause(p) ==
    /\ timeout_config # NoTimeoutConfig
    /\ pause' = p
    /\ UNCHANGED <<storage_leaves, locked_qc, safety_call, timeout_config, int_duration,
                   round_res, phaselock_keep>>

\* One iteration of the background driver loop. res: what the iteration meets
\* (the shut down flag, a failed next_view, a round that succeeds, fails or
\* times out); channel_ok: the event for an error or a timeout could be sent.
DriverIteration(res, channel_ok) ==
    /\ timeout_config # NoTimeoutConfig
    /\ round_res \notin {"shut_down", "closed"}
    /\ (int_duration * timeout_config.mul) \div timeout_config.div <= MaxDuration
    /\ IF res = "shut_down" THEN round_res' = "shut_down" /\ UNCHANGED <<int_duration, pause>>
       ELSE IF pause THEN round_res' = "paused" /\ UNCHANGED <<int_duration, pause>>
       ELSE IF res # "ok" /\ ~channel_ok
       THEN round_res' = "closed" /\ UNCHANGED <<int_duration, pause>>
       ELSE /\ round_res' = res
            /\ pause' = (res = "next_view_err")
            /\ int_duration' =
                  CASE res = "ok" -> timeout_config.next_view_timeout
                    [] res = "timeout" ->
                          (int_duration * timeout_config.mul) \div timeout_config.div
                    [] OTHER -> int_duration
    /\ UNCHANGED <<storage_leaves, locked_qc, safety_call, timeout_config, phaselock_keep>>

\* The configurations the driver is started with.
TimeoutConfigs ==
    {[next_view_timeout |-> t, mul |-> r[1], div |-> r[2]] :
        t \in {4, 10}, r \in {<<3, 2>>, <<11, 10>>}}

\* The certificates a proposal comes with: the genesis certificate, and
\* certificates of later views.
PlQcs == {PlQc(0, 0, TRUE)} \cup {PlQc(0, view, FALSE) : view \in 1..2}

\* The storage, the lock and the two safety functions.
PhaseLockNext ==
    \/ \E h \in 2..MaxLeafHash, parent \in 0..MaxLeafHash : insert_leaf(h, parent)
    \/ \E h \in 1..MaxLeafHash, view \in 1..2 : LockQc(h, view)
    \/ \E parent, node \in 0..MaxLeafHash : CallExtendsFrom(parent, node)
    \/ \E parent \in 0..MaxLeafHash, qc \in PlQcs : CallSafeNode(parent, qc)

SpecPhaseLock == Init /\ [][PhaseLockNext]_vars

\* The background driver loop and the handle's pause flag.
DriverNext ==
    \/ \E config \in TimeoutConfigs : PhaseLock_init(config)
    \/ \E p \in BOOLEAN : SetPause(p)
    \/ \E res \in {"shut_down", "next_view_err", "ok", "err", "timeout"},
          channel_ok \in BOOLEAN : DriverIteration(res, channel_ok)

SpecDriver == Init /\ [][DriverNext]_vars

\* ------------------------------------------------- the network request task

\* What the request task and its requesters never touch.
request_keep == <<saved_payloads, validated_state_map, storage_da, da_task_vars, high_qc,
                  locked_view, last_decided_view, saved_leaves, last_proposals,
                  storage_high_qc, qp_task_vars, recv_task_vars, committee_vars, wire,
                  wire_sent, wire_result, requests, response, external_stream,
                  external_active, external_waiting, phaselock_vars, lock_vars>>

\* da_membership.whole_committee(view), shuffled by run_delay: any order of the
\* committee's keys.
Shuffles ==
    {r \in [1..DaCommitteeSize -> 1..DaCommitteeSize] :
        \A i, j \in 1..DaCommitteeSize : r[i] = r[j] => i = j}

\* da_membership.leader(view): the committee's keys take turns in key order.
da_membership_leader(view) == (view % DaCommitteeSize) + 1

\* cancel_vid without its view test.
cancel_vid_NoViewCheck(view) ==
    \/ shutdown_flag
    \/ vid_shares[view] # {}

\* DelayedRequester::cancel_vid, read under the Consensus read lock.
cancel_vid(view) ==
    \/ shutdown_flag
    \/ vid_shares[view] # {}
    \/ cur_view > view

\* handle_event(ViewChange(view)): the task's view only rises.
RequestViewChange(view) ==
    /\ view > request_view
    /\ request_view' = view
    /\ UNCHANGED <<cur_view, vid_shares, shutdown_flag, vid_requester, vid_sent,
                   proposal_requester, proposal_sent, response_chan, request_keep>>

\* handle_event(QuorumProposalValidated) with spawn_requests, build_requests and
\* run_delay: a proposal of an old view is ignored; a VID request is built when
\* Consensus has no share for the view; run_delay spawns the requester with the
\* shuffled committee unless the request cannot be signed. The requester sleeps
\* and then enters do_vid, at its first loop check.
spawn_requests(view, recipients, sign_ok) ==
    /\ vid_requester.pc = "none"
    /\ view >= request_view
    /\ vid_shares[view] = {}
    /\ vid_requester' = IF sign_ok
                         THEN [pc |-> "check", view |-> view, recipients |-> recipients,
                               next |-> 1, recv |-> FALSE]
                         ELSE [vid_requester EXCEPT !.pc = "unsigned"]
    /\ UNCHANGED <<cur_view, vid_shares, request_view, shutdown_flag, vid_sent,
                   proposal_requester, proposal_sent, response_chan, request_keep>>

\* do_vid, the loop condition: cancel_vid ends the loop, otherwise the body runs.
VidCheck ==
    /\ vid_requester.pc = "check"
    /\ IF cancel_vid(vid_requester.view)
       THEN vid_requester' = [vid_requester EXCEPT !.pc = "done"]
       ELSE /\ Len(vid_sent) < MaxVidRequests
            /\ vid_requester' = [vid_requester EXCEPT !.pc = "send"]
    /\ UNCHANGED <<cur_view, vid_shares, request_view, shutdown_flag, vid_sent,
                   proposal_requester, proposal_sent, response_chan, request_keep>>

\* do_vid, the loop body: request_data to the next recipient of the cycle, bounded
\* by REQUEST_TIMEOUT; a Found response is handed to handle_response_message, which
\* broadcasts VidShareRecv (recv); every outcome leads back to the loop condition.
VidRequest(outcome) ==
    /\ vid_requester.pc = "send"
    /\ vid_sent' = Append(vid_sent, vid_requester.recipients[vid_requester.next])
    /\ vid_requester' =
           [vid_requester EXCEPT !.pc = "check",
                                 !.next = (@ % Len(vid_requester.recipients)) + 1,
                                 !.recv = (outcome = "Found")]
    /\ UNCHANGED <<cur_view, vid_shares, request_view, shutdown_flag,
                   proposal_requester, proposal_sent, response_chan, request_keep>>

\* set_shutdown_flag.
set_shutdown_flag ==
    /\ ~shutdown_flag
    /\ shutdown_flag' = TRUE
    /\ UNCHANGED <<cur_view, vid_shares, request_view, vid_requester, vid_sent,
                   proposal_requester, proposal_sent, response_chan, request_keep>>

\* cancel_subtasks: the flag is raised and every spawned task is cancelled.
cancel_subtasks ==
    /\ vid_requester.pc \in {"check", "send"} \/ proposal_requester.pc = "spawned"
    /\ shutdown_flag' = TRUE
    /\ vid_requester' = IF vid_requester.pc \in {"check", "send"}
                         THEN [vid_requester EXCEPT !.pc = "cancelled"]
                         ELSE vid_requester
    /\ proposal_requester' = IF proposal_requester.pc = "spawned"
                              THEN [proposal_requester EXCEPT !.pc = "cancelled"]
                              ELSE proposal_requester
    /\ UNCHANGED <<cur_view, vid_shares, request_view, vid_sent, proposal_sent,
                   response_chan, request_keep>>

\* Another task stores a VID share for the view in Consensus.
StoreVidShare(view) ==
    /\ vid_shares[view] = {}
    /\ vid_shares' = [vid_shares EXCEPT ![view] = {1}]
    /\ UNCHANGED <<cur_view, request_vars, request_keep>>

\* Another task moves Consensus to the next view.
ConsensusViewChange ==
    /\ cur_view < MaxView
    /\ cur_view' = cur_view + 1
    /\ UNCHANGED <<vid_shares, request_vars, request_keep>>

\* handle_event(QuorumProposalRequest) with run_proposal: the request is signed and
\* a ProposalRequester for the leader of the view is spawned with the channel of
\* the request; when signing fails run_proposal returns.
run_proposal(view, sign_ok) ==
    /\ proposal_requester.pc \in {"none", "done", "unsigned"}
    /\ proposal_requester' = [pc |-> IF sign_ok THEN "spawned" ELSE "unsigned",
                              view |-> view, leader |-> da_membership_leader(view),
                              outcome |-> "none"]
    /\ proposal_sent' = <<>>
    /\ response_chan' = <<>>
    /\ UNCHANGED <<cur_view, vid_shares, request_view, shutdown_flag, vid_requester,
                   vid_sent, request_keep>>

ProposalOutcomes == {"SerializeErr", "Timeout", "NetError", "BadBytes", "NotFound",
                     "Denied", "FoundOther", "FoundProposal"}

\* ProposalRequester::do_proposal. A request that cannot be serialized is not
\* sent and None is broadcast. Otherwise request_data goes to the leader, bounded
\* by REQUEST_TIMEOUT. A Found response that is not a proposal broadcasts None and
\* returns; one that is a proposal broadcasts Some(prop) and goes on to the
\* statement after the inner if, which broadcasts None; every other outcome
\* broadcasts None.
do_proposal(outcome) ==
    /\ proposal_requester.pc = "spawned"
    /\ proposal_requester' = [proposal_requester EXCEPT !.pc = "done", !.outcome = outcome]
    /\ proposal_sent' = IF outcome = "SerializeErr" THEN proposal_sent
                         ELSE Append(proposal_sent, proposal_requester.leader)
    /\ response_chan' = IF outcome = "FoundProposal"
                         THEN response_chan \o <<"Some", "None">>
                         ELSE Append(response_chan, "None")
    /\ UNCHANGED <<cur_view, vid_shares, request_view, shutdown_flag, vid_requester,
                   vid_sent, request_keep>>

\* The task with its proposal requester.
RequestNext ==
    \/ \E view \in Views : RequestViewChange(view)
    \/ set_shutdown_flag
    \/ cancel_subtasks
    \/ \E view \in Views, sign_ok \in BOOLEAN : run_proposal(view, sign_ok)
    \/ \E outcome \in ProposalOutcomes : do_proposal(outcome)

SpecRequest == Init /\ [][RequestNext]_vars

\* The task with its VID requester, and Consensus.
VidRequestNext ==
    \/ \E view \in Views : RequestViewChange(view)
    \/ \E view \in Views, recipients \in Shuffles, sign_ok \in BOOLEAN :
            spawn_requests(view, recipients, sign_ok)
    \/ VidCheck
    \/ \E outcome \in {"Found", "NotFound", "Timeout"} : VidRequest(outcome)
    \/ set_shutdown_flag
    \/ cancel_subtasks
    \/ \E view \in Views : StoreVidShare(view)
    \/ ConsensusViewChange

\* The executor runs a spawned requester until it completes or is cancelled: its
\* request_data calls and its sleeps are bounded by REQUEST_TIMEOUT.
SpecVidRequest ==
    /\ Init
    /\ [][VidRequestNext]_vars
    /\ WF_vars(VidCheck)
    /\ WF_vars(\E outcome \in {"Found", "NotFound", "Timeout"} : VidRequest(outcome))

\* ------------------------------------- the Consensus lock and the Storage lock

\* What taking and releasing the locks never touches.
lock_keep == <<da_vars, high_qc, locked_view, last_decided_view, saved_leaves,
               last_proposals, storage_high_qc, qp_task_vars, recv_task_vars,
               committee_vars, wire, wire_sent, wire_result, vid_shares, requests,
               response, external_stream, external_active, external_waiting,
               phaselock_vars, request_vars>>

\* consensus.read().await: granted while no writer holds the lock.
consensus_read(t) ==
    /\ consensus_lock.writer = "none"
    /\ consensus_lock' = [consensus_lock EXCEPT !.readers = @ \cup {t}]

\* consensus.write().await: granted while nobody holds the lock.
consensus_write(t) ==
    /\ consensus_lock.writer = "none"
    /\ consensus_lock.readers = {}
    /\ consensus_lock' = [consensus_lock EXCEPT !.writer = t]

\* The guard of the Consensus lock is dropped.
consensus_drop(t) ==
    consensus_lock' = [writer |-> IF consensus_lock.writer = t THEN "none"
                                  ELSE consensus_lock.writer,
                       readers |-> consensus_lock.readers \ {t}]

\* storage.write().await: granted while nobody holds the lock.
storage_write(t) ==
    /\ storage_lock = "none"
    /\ storage_lock' = t

\* The task moves to the line named.
LockGoto(t, line) == lock_pc' = [lock_pc EXCEPT ![t] = line]

\* An event reaches the task and its handler runs up to its first lock request.
LockStart(t, line) ==
    /\ lock_pc[t] = "idle"
    /\ lock_runs[t] < MaxLockRuns
    /\ lock_runs' = [lock_runs EXCEPT ![t] = @ + 1]
    /\ LockGoto(t, line)
    /\ UNCHANGED <<consensus_lock, storage_lock, lock_keep>>

\* The storage.write() of the quorum proposal task taken first and held while
\* consensus.write() is requested.
QpLocks_StorageHeld ==
    \/ LockStart("qp", "453")
    \/ /\ lock_pc["qp"] = "453" /\ storage_write("qp") /\ LockGoto("qp", "449")
        /\ UNCHANGED <<consensus_lock, lock_runs, lock_keep>>
    \/ /\ lock_pc["qp"] = "449" /\ consensus_write("qp") /\ LockGoto("qp", "449h")
        /\ UNCHANGED <<storage_lock, lock_runs, lock_keep>>
    \/ /\ lock_pc["qp"] = "449h" /\ consensus_drop("qp") /\ storage_lock' = "none"
        /\ LockGoto("qp", "idle")
        /\ UNCHANGED <<lock_runs, lock_keep>>

\* DaTaskState::handle(DaProposalValidated): consensus.read() for cur_view, its
\* guard dropped at the end of the statement; a proposal too old, or a node
\* without stake, returns; storage.write() for append_da, dropped after the call,
\* and a failed append returns; consensus.write() after the vote is sent, held to
\* the end of the arm.
DaLocks ==
    \/ LockStart("da", "144")
    \/ /\ lock_pc["da"] = "144" /\ consensus_read("da") /\ LockGoto("da", "144h")
        /\ UNCHANGED <<storage_lock, lock_runs, lock_keep>>
    \/ /\ lock_pc["da"] = "144h" /\ consensus_drop("da")
        /\ \E line \in {"169", "idle"} : LockGoto("da", line)
        /\ UNCHANGED <<storage_lock, lock_runs, lock_keep>>
    \/ /\ lock_pc["da"] = "169" /\ storage_write("da") /\ LockGoto("da", "169h")
        /\ UNCHANGED <<consensus_lock, lock_runs, lock_keep>>
    \/ /\ lock_pc["da"] = "169h" /\ storage_lock' = "none"
        /\ \E line \in {"200", "idle"} : LockGoto("da", line)
        /\ UNCHANGED <<consensus_lock, lock_runs, lock_keep>>
    \/ /\ lock_pc["da"] = "200" /\ consensus_write("da") /\ LockGoto("da", "200h")
        /\ UNCHANGED <<storage_lock, lock_runs, lock_keep>>
    \/ /\ lock_pc["da"] = "200h" /\ consensus_drop("da") /\ LockGoto("da", "idle")
        /\ UNCHANGED <<storage_lock, lock_runs, lock_keep>>

\* QuorumProposalTaskState::handle(UpdateHighQc): consensus.write() for
\* update_high_qc, its guard dropped at the end of the statement; then
\* storage.write() for update_high_qc, dropped likewise.
QpLocks ==
    \/ LockStart("qp", "449")
    \/ /\ lock_pc["qp"] = "449" /\ consensus_write("qp") /\ LockGoto("qp", "449h")
        /\ UNCHANGED <<storage_lock, lock_runs, lock_keep>>
    \/ /\ lock_pc["qp"] = "449h" /\ consensus_drop("qp") /\ LockGoto("qp", "453")
        /\ UNCHANGED <<storage_lock, lock_runs, lock_keep>>
    \/ /\ lock_pc["qp"] = "453" /\ storage_write("qp") /\ LockGoto("qp", "453h")
        /\ UNCHANGED <<consensus_lock, lock_runs, lock_keep>>
    \/ /\ lock_pc["qp"] = "453h" /\ storage_lock' = "none" /\ LockGoto("qp", "idle")
        /\ UNCHANGED <<consensus_lock, lock_runs, lock_keep>>

\* handle_quorum_proposal_recv from the parent lookup on: consensus.read() for
\* the lookup, dropped at the end of the statement; consensus_read taken and
\* held; when the justify_qc is newer, storage.write() requested and used under
\* it; consensus_read dropped; consensus.write() for update_high_qc, dropped; and
\* when the parent is missing validate_proposal_liveness: consensus_write taken,
\* storage.write() requested and used under it, consensus_write dropped.
RecvLocks ==
    \/ LockStart("recv", "162")
    \/ /\ lock_pc["recv"] = "162" /\ consensus_read("recv") /\ LockGoto("recv", "162h")
        /\ UNCHANGED <<storage_lock, lock_runs, lock_keep>>
    \/ /\ lock_pc["recv"] = "162h" /\ consensus_drop("recv") /\ LockGoto("recv", "179")
        /\ UNCHANGED <<storage_lock, lock_runs, lock_keep>>
    \/ /\ lock_pc["recv"] = "179" /\ consensus_read("recv") /\ LockGoto("recv", "179h")
        /\ UNCHANGED <<storage_lock, lock_runs, lock_keep>>
    \/ /\ lock_pc["recv"] = "179h"
        /\ \E line \in {"194", "203"} : LockGoto("recv", line)
        /\ UNCHANGED <<consensus_lock, storage_lock, lock_runs, lock_keep>>
    \/ /\ lock_pc["recv"] = "194" /\ storage_write("recv") /\ LockGoto("recv", "194h")
        /\ UNCHANGED <<consensus_lock, lock_runs, lock_keep>>
    \/ /\ lock_pc["recv"] = "194h" /\ storage_lock' = "none" /\ LockGoto("recv", "203")
        /\ UNCHANGED <<consensus_lock, lock_runs, lock_keep>>
    \/ /\ lock_pc["recv"] = "203" /\ consensus_drop("recv") /\ LockGoto("recv", "205")
        /\ UNCHANGED <<storage_lock, lock_runs, lock_keep>>
    \/ /\ lock_pc["recv"] = "205" /\ consensus_write("recv") /\ LockGoto("recv", "205h")
        /\ UNCHANGED <<storage_lock, lock_runs, lock_keep>>
    \/ /\ lock_pc["recv"] = "205h" /\ consensus_drop("recv")
        /\ \E line \in {"53", "idle"} : LockGoto("recv", line)
        /\ UNCHANGED <<storage_lock, lock_runs, lock_keep>>
    \/ /\ lock_pc["recv"] = "53" /\ consensus_write("recv") /\ LockGoto("recv", "53h")
        /\ UNCHANGED <<storage_lock, lock_runs, lock_keep>>
    \/ /\ lock_pc["recv"] = "53h" /\ LockGoto("recv", "75")
        /\ UNCHANGED <<consensus_lock, storage_lock, lock_runs, lock_keep>>
    \/ /\ lock_pc["recv"] = "75" /\ storage_write("recv") /\ LockGoto("recv", "75h")
        /\ UNCHANGED <<consensus_lock, lock_runs, lock_keep>>
    \/ /\ lock_pc["recv"] = "75h" /\ storage_lock' = "none" /\ LockGoto("recv", "89")
        /\ UNCHANGED <<consensus_lock, lock_runs, lock_keep>>
    \/ /\ lock_pc["recv"] = "89" /\ consensus_drop("recv") /\ LockGoto("recv", "idle")
        /\ UNCHANGED <<storage_lock, lock_runs, lock_keep>>

\* NetworkResponseState, respond_with_proposal: consensus.read() for the lookup,
\* dropped at the end of the match.
RespLocks ==
    \/ LockStart("resp", "218")
    \/ /\ lock_pc["resp"] = "218" /\ consensus_read("resp") /\ LockGoto("resp", "218h")
        /\ UNCHANGED <<storage_lock, lock_runs, lock_keep>>
    \/ /\ lock_pc["resp"] = "218h" /\ consensus_drop("resp") /\ LockGoto("resp", "idle")
        /\ UNCHANGED <<storage_lock, lock_runs, lock_keep>>

LockNext == DaLocks \/ QpLocks \/ RecvLocks \/ RespLocks

\* The executor runs every task that can take a step.
SpecLocks ==
    /\ Init
    /\ [][LockNext]_vars
    /\ WF_vars(DaLocks) /\ WF_vars(QpLocks) /\ WF_vars(RecvLocks) /\ WF_vars(RespLocks)

\* ------------------------------------------- claims: the two locks

\* C39: no task stands at a request for the Consensus lock while it holds the
\* Storage lock, and every task that stands at a lock request is eventually
\* granted the lock.
C39_NoLockCycle ==
    /\ [](\A t \in LockTasks :
            storage_lock = t
                => lock_pc[t] \notin {"144", "200", "449", "162", "179", "205", "53", "218"})
    /\ \A t \in LockTasks :
            [](lock_pc[t] \in {"144", "169", "200", "449", "453", "162", "179", "194",
                               "205", "53", "75", "218"}
                  => <>(lock_pc[t] \in {"144h", "169h", "200h", "449h", "453h", "162h",
                                        "179h", "194h", "205h", "53h", "75h", "218h"}))

\* The receive task holds the Consensus read guard and stands at its request for
\* the Storage lock, which the DA task holds, while the quorum proposal task
\* stands at its request for the Consensus write guard.
C39_Witness ==
    /\ lock_pc["recv"] = "194"
    /\ "recv" \in consensus_lock.readers
    /\ storage_lock = "da"
    /\ lock_pc["qp"] = "449"

\* ------------------------------------------- claims: the network request task

\* C37: a VID requester sends a request only after a loop check at which no share
\* for its view was stored, Consensus was not past its view and shutdown was not
\* signalled; a loop check at which one of these holds ends the requester, which
\* then sends nothing more; the requests go to the shuffled committee in
\* round-robin order; and a running requester whose stop condition holds
\* eventually ends.
C37_VidRequesterStops ==
    /\ [][LET v == vid_requester.view
              stop == shutdown_flag \/ vid_shares[v] # {} \/ cur_view > v
              n == Len(vid_requester.recipients)
          IN  /\ vid_requester.pc = "check" /\ vid_requester'.pc = "send" => ~stop
              /\ vid_requester.pc = "check" /\ vid_requester'.pc = "done" => stop
              /\ vid_requester.pc = "check" /\ stop => vid_requester'.pc # "send"
              /\ vid_sent' # vid_sent
                    => /\ vid_requester.pc = "send"
                       /\ vid_sent' = Append(vid_sent,
                                             vid_requester.recipients[(Len(vid_sent) % n) + 1])
              /\ vid_requester.pc \in {"done", "cancelled"}
                    => vid_sent' = vid_sent /\ vid_requester' = vid_requester]_vars
    /\ [](LET v == vid_requester.view
          IN  (/\ vid_requester.pc \in {"check", "send"}
               /\ shutdown_flag \/ vid_shares[v] # {} \/ cur_view > v)
                  => <>(vid_requester.pc \in {"done", "cancelled"}))

\* A requester that went round the whole committee and back to its first
\* recipient has ended because Consensus moved past its view.
C37_Witness ==
    /\ vid_requester.pc = "done"
    /\ Len(vid_sent) = MaxVidRequests
    /\ vid_sent[MaxVidRequests] = vid_sent[1]
    /\ cur_view > vid_requester.view
    /\ ~shutdown_flag
    /\ vid_shares[vid_requester.view] = {}

\* C38: a proposal requester that has run sent exactly one request, to the leader
\* of the view, and delivered exactly one value on response_chan: Some(proposal)
\* when the leader answered Found with a quorum proposal, None otherwise.
C38_OneRequestOneAnswer ==
    proposal_requester.pc = "done"
        => /\ proposal_requester.outcome # "SerializeErr"
                => proposal_sent = <<da_membership_leader(proposal_requester.view)>>
           /\ Len(response_chan) = 1
           /\ response_chan[1] = "Some" <=> proposal_requester.outcome = "FoundProposal"

\* ------------------------------------------- claims: the PhaseLock engine

\* node is reached from a leaf with this parent by parent links through leaves
\* that are in the storage.
RECURSIVE IsAncestor(_, _, _)
IsAncestor(leaves, parent, node) ==
    \/ parent = node
    \/ /\ parent # 0
       /\ leaves[parent] # -1
       /\ IsAncestor(leaves, leaves[parent], node)

\* C35: safe_node accepts a proposed leaf whose parent is in the storage exactly
\* when the leaf extends from the locked leaf (safety) or the proposal's
\* certificate is for a view above the locked view (liveness); when neither
\* holds it answers false.
C35_SafetyOrLiveness ==
    [][(/\ safety_call' # safety_call
        /\ safety_call'.fn = "safe_node"
        /\ safety_call'.parent # 0
        /\ storage_leaves[safety_call'.parent] # -1) =>
          (safety_call'.result <=>
              \/ PhaseLock_extends_from(storage_leaves, safety_call'.parent,
                                        locked_qc.leaf_hash)
              \/ safety_call'.qc.view_number > locked_qc.view_number)]_vars

\* C36: extends_from(leaf, node) answers true exactly when node is an ancestor of
\* the leaf through stored leaves; a chain that ends at the zero hash without
\* meeting node, and a chain broken by a missing leaf, give false.
C36_ExtendsFromIsAncestry ==
    [][(safety_call' # safety_call /\ safety_call'.fn = "extends_from") =>
          (safety_call'.result <=>
              IsAncestor(storage_leaves, safety_call'.parent, safety_call'.node))]_vars

\* C40: the round timeout starts at next_view_timeout; an iteration whose round
\* times out replaces it by (t * mul) / div in integer arithmetic, and one whose
\* round succeeds, or ends with an error, sets it back to next_view_timeout.
C40_TimeoutBackoff ==
    /\ [](round_res = "started" => int_duration = timeout_config.next_view_timeout)
    /\ [][(round_res' # round_res \/ int_duration' # int_duration) =>
            /\ round_res' = "timeout" =>
                  int_duration' = (int_duration * timeout_config.mul) \div timeout_config.div
            /\ round_res' \in {"ok", "err"} =>
                  int_duration' = timeout_config.next_view_timeout]_vars

\* ------------------------------------------- claims: agreement

HasObserved(v, t, u) ==
    \E k \in SlotKinds : dep[v].slots[k].type = t /\ dep[v].slots[k].view = u

\* The dependency chain of the task for view v has completed and its handle runs.
Fired(v) == dep[v].st \in {"fetch", "collect", "header", "sleep"}

\* C3: for every view, update_last_proposed_view accepts at most one proposal, and
\* a QuorumProposalSend is broadcast only for an accepted proposal, so at most once.
C3_OneProposalPerView ==
    \A v \in DepViews : accepted[v] <= 1 /\ sent[v] <= accepted[v]

\* C3 witness: two dependency tasks ran to publish_proposal; one proposal was
\* accepted and sent, the other was refused as stale.
C3_Witness ==
    \E u, v \in DepViews : sent[u] = 1 /\ dep[v].st = "stale" /\ sent[v] = 0

\* The combination of events C5 names: both primary events, and UpdateHighQc for
\* the view before, or a timeout certificate for the view before, or a view sync
\* certificate for the view.
C5_Combination(v) ==
    /\ HasObserved(v, "SendPayloadCommitmentAndMetadata", v)
    /\ HasObserved(v, "VidDisperseSend", v)
    /\ \/ HasObserved(v, "UpdateHighQc", v - 1)
       \/ HasObserved(v, "QcFormedTimeout", v - 1)
       \/ HasObserved(v, "ViewSyncFinalizeCertificate2Recv", v)

\* The same with what the code asks of the UpdateHighQc case above view 1: the
\* QuorumProposalRecv of the view before as well.
C5_CombinationWithProposal(v) ==
    /\ HasObserved(v, "SendPayloadCommitmentAndMetadata", v)
    /\ HasObserved(v, "VidDisperseSend", v)
    /\ \/ /\ HasObserved(v, "UpdateHighQc", v - 1)
          /\ v > 1 => HasObserved(v, "QuorumProposalRecv", v - 1)
       \/ HasObserved(v, "QcFormedTimeout", v - 1)
       \/ HasObserved(v, "ViewSyncFinalizeCertificate2Recv", v)

NotLost(e) ==
    \A v \in DepViews, k \in SlotKinds :
        (e.valid /\ EventView(k, e) = v /\ Leader(v) /\ v > latest_proposed_view) =>
            /\ dep[v].st # "none"
            /\ dep[v].st = "waiting" => dep[v].slots[k] # NoEvent

\* C6: no event the dependency for V needs is lost when it is delivered to the
\* quorum proposal task, whatever QuorumProposalRecv and QuorumProposalSend events
\* it is interleaved with, so that the task for V completes once all are delivered.
C6_NoEventLost == [][\A e \in QpInputs : NotLost(e)' \/ ~QpReceive(e)]_vars

\* ------------------------------------------------- claims: views and high QC

\* C4: last_decided_view <= locked_view <= high_qc.view <= cur_view, from
\* construction on and after every step of handling a QuorumProposalRecv.
C4_ViewOrder ==
    /\ last_decided_view <= locked_view
    /\ locked_view <= high_qc
    /\ high_qc <= cur_view

\* C7: high_qc only ever moves to a QC of a strictly higher view, in the receive
\* handler and in the quorum proposal task alike.
C7_HighQcStrictlyUp == [][high_qc' # high_qc => high_qc' > high_qc]_vars

\* C7 witness: the receive handler has called update_high_qc with a justify_qc
\* below high_qc, and high_qc is still above it.
C7_Witness == recv_pc = "validate" /\ recv_p.jqc < high_qc

\* C8: storage.update_high_qc is only called with a QC above the current high QC,
\* so what storage holds only changes to a view above high_qc.
C8_StoreOnlyHigher ==
    [][storage_high_qc' # storage_high_qc => storage_high_qc' > high_qc]_vars

\* C9: a run in which storage.update_high_qc(q) fails does not adopt q as high_qc,
\* ends the receive handler before it validates, and starts no dependency task.
C9_StorageFailureAborts ==
    [][/\ (recv_storage_failed' /\ ~recv_storage_failed) =>
              (high_qc' = high_qc /\ recv_pc' = "idle" /\ dep' = dep /\ qp_events' = qp_events)
       /\ (qp_storage_failed' /\ ~qp_storage_failed) =>
              (high_qc' = high_qc /\ dep' = dep)]_vars

\* ---------------------------------------------------------------- DA claims

HasEffect(op) == \E i \in DOMAIN da_effects : da_effects[i].op = op

\* C2: for every view, the DA task emits DaVoteSend at most once, whatever
\* DaProposalRecv and DaProposalValidated events it is given.
C2_DaVoteAtMostOncePerView == \A v \in Views : da_vote_count[v] <= 1

\* C10 (ordering): within a run of the handler, DaVoteSend for a proposal comes
\* only after storage.append_da returned Ok for that proposal.
C10_AppendBeforeVote ==
    \A i \in DOMAIN da_effects :
        da_effects[i].op = "DaVoteSend" =>
            /\ da_effects[i].p \in storage_da
            /\ \E j \in 1..(i - 1) :
                  da_effects[j] = Effect("append_da", da_effects[i].p)

\* C10 (failure): a run in which append_da fails emits no DaVoteSend, leaves
\* validated_state_map and saved_payloads as they were, and the task stays alive.
C10_AbortOnFailure ==
    da_append_failures' = da_append_failures + 1 =>
        /\ da_vote_count' = da_vote_count
        /\ validated_state_map' = validated_state_map
        /\ saved_payloads' = saved_payloads
        /\ da_alive'

\* C10: the DA proposal is persisted before voting, and a failed append_da aborts
\* the vote for that proposal with Consensus untouched and the task still running.
C10_PersistBeforeVote == [](C10_AppendBeforeVote) /\ [][C10_AbortOnFailure]_da_vars

\* C10 witness: after an append_da failure the task has handled a later
\* DaProposalValidated and voted on it.
C10_Witness == da_append_failures > 0 /\ HasEffect("DaVoteSend")


\* ------------------------------------------- claims: saved payloads, DA certificates

\* C11: whenever saved_payloads holds a payload for a view, this node has seen a
\* DA quorum for that view: a DA certificate it formed or received. Stated for the
\* views above the genesis view, whose payload only the DA task can save.
C11_PayloadNeedsDaQuorum ==
    \A v \in DepViews : saved_payloads[v] # "none" => v \in da_quorum_observed

\* The step is a run of handle on a validated DA proposal that reaches
\* update_saved_payloads with bytes other than the ones saved for the view.
ConflictingSave ==
    /\ da_events # <<>>
    /\ da_events' = Tail(da_events)
    /\ Head(da_events).type = "DaProposalValidated"
    /\ \E i \in DOMAIN da_effects' : da_effects'[i].op = "update_saved_payloads"
    /\ saved_payloads[Head(da_events).view] \notin {"none", Head(da_events).p.txns}

\* C12: a payload once saved for a view never changes, and a run that tries to
\* save different bytes for the view emits an external Error event and shuts the
\* task down.
C12_ConflictingPayloadIsFatal ==
    [][/\ \A v \in Views : saved_payloads[v] # "none" => saved_payloads'[v] = saved_payloads[v]
       /\ ConflictingSave =>
             /\ ~da_alive'
             /\ \E i \in DOMAIN da_effects' : da_effects'[i].op = "Error"]_da_vars

\* The step is a run of handle on a DaVoteRecv for a view whose certificate this
\* node has already formed.
LateDaVote ==
    /\ da_events # <<>>
    /\ da_events' = Tail(da_events)
    /\ Head(da_events).type = "DaVoteRecv"
    /\ da_cert_count[Head(da_events).view] >= 1

\* C13: the DA leader forms at most one DA certificate per view, and a DaVoteRecv
\* for a view whose accumulator has completed creates no accumulator and emits
\* nothing.
C13_OneDaCertPerView ==
    /\ [](\A v \in DOMAIN da_cert_count : da_cert_count[v] <= 1)
    /\ [][LateDaVote => /\ vote_collector' = vote_collector
                        /\ da_cert_count' = da_cert_count
                        /\ da_effects' = <<>>]_da_vars


\* ------------------------------------------- claims: threshold

\* C14 as stated: for every total stake n the threshold is the ceiling of 2n/3
\* plus one, and it is 3 for n = 4; the committee's accumulator completes at it.
C14_ThresholdIsCeil ==
    /\ \A n \in 1..MaxStake : threshold_calculator(n, n) = (2 * n + 2) \div 3 + 1
    /\ threshold_calculator(4, 4) = 3
    /\ Cardinality(vote_collector.signers) < (2 * num_nodes + 2) \div 3 + 1

\* C14, amended: for every total stake n the threshold is the floor of 2n/3 plus
\* one, that is the least number of votes strictly above two thirds of n, whatever
\* the number of live nodes; it is 3 for n = 4; an accumulator that has not
\* completed holds fewer votes than that.
C14_ThresholdIsFloor ==
    /\ \A n \in 1..MaxStake : \A live \in 0..n :
          LET t == threshold_calculator(live, n)
          IN  3 * t > 2 * n /\ 3 * (t - 1) <= 2 * n
    /\ threshold_calculator(4, 4) = 3
    /\ 3 * Cardinality(vote_collector.signers) <= 2 * num_nodes

\* A committee of two formed a DA certificate: both members' votes were needed.
C14_Witness ==
    /\ num_nodes = 2
    /\ \E v \in Views : da_cert_count[v] = 1

====
